---------------------------- MODULE Spec2Model ----------------------------
(***************************************************************************)
(* A model of the Image Map (Loom View) shape editor of src/main.ts: the   *)
(* geometry helpers, the hotspot/profile store and the LoomView editor     *)
(* (drawing, edge editing, undo, naming) as a state machine driven by      *)
(* pointer and keyboard events.                                            *)
(*                                                                         *)
(* Coordinates are percentages of the image box.  They are kept in fixed   *)
(* point: one unit is 1/Unit of a percentage point, so that the halves,    *)
(* means and cosines the code computes in floating point are computed here *)
(* to the nearest unit.                                                    *)
(***************************************************************************)
EXTENDS Integers, Sequences, FiniteSets, TLC

(***************************************************************************)
(* Units and small helpers                                                 *)
(***************************************************************************)

\* Units per percentage point (resolution 1e-6 of a percentage point).
Unit == 1000 * 1000

\* A percentage value in units.
Pct(n) == n * Unit

Min2(a, b) == IF a < b THEN a ELSE b

Max2(a, b) == IF a > b THEN a ELSE b

Abs(a) == IF a < 0 THEN -a ELSE a

\* a / b to the nearest unit, b > 0 (the code divides in floating point).
DivRound(a, b) == (2 * a + b) \div (2 * b)

\* Math.max(0, Math.min(100, v)): src/main.ts 378-379, 416-417, 638-639.
Clamp(v) == Max2(0, Min2(Pct(100), v))

ClampPt(p) == <<Clamp(p[1]), Clamp(p[2])>>

\* The pointer is within the image bounds (src/main.ts 335-336).
InsideImage(p) == /\ p[1] >= 0 /\ p[1] <= Pct(100)
                  /\ p[2] >= 0 /\ p[2] <= Pct(100)

(***************************************************************************)
(* Geometry kernel                                                         *)
(***************************************************************************)

RECURSIVE SumCoord(_, _)
\* points.reduce((s, p) => s + p[k], 0)
SumCoord(points, k) ==
    IF points = << >> THEN 0
    ELSE points[1][k] + SumCoord(Tail(points), k)

\* A mean that truncates instead of dividing to the nearest unit.
CentroidTrunc(points) ==
    LET n == Len(points)
    IN  IF n = 0 THEN <<Pct(50), Pct(50)>>
        ELSE <<SumCoord(points, 1) \div (n + 1), SumCoord(points, 2) \div (n + 1)>>

\* centroid(points): src/main.ts 87-93.
Centroid(points) ==
    LET n == Len(points)
    IN  IF n = 0 THEN <<Pct(50), Pct(50)>>
        ELSE <<DivRound(SumCoord(points, 1), n), DivRound(SumCoord(points, 2), n)>>

\* const tension = 0.35: src/main.ts 74.
TensionNum == 7

TensionDen == 20

\* v * tension, to the nearest unit.
MulTension(v) == DivRound(v * TensionNum, TensionDen)

\* The path commands of an SVG path string, in order.
MoveTo(p) == [op |-> "M", to |-> p]

LineTo(p) == [op |-> "L", to |-> p]

CurveTo(c1, c2, p) == [op |-> "C", c1 |-> c1, c2 |-> c2, to |-> p]

ClosePath == [op |-> "Z"]

\* A segment whose second control point is taken at the vertex before the
\* segment's start instead of the one after its end.
CurveSegmentNoLookahead(points, i) ==
    LET n == Len(points)
        p0 == points[((i - 1 + n) % n) + 1]
        p1 == points[i + 1]
        p2 == points[((i + 1) % n) + 1]
        cp1 == <<p1[1] + MulTension(p2[1] - p0[1]), p1[2] + MulTension(p2[2] - p0[2])>>
        cp2 == <<p2[1] - MulTension(p0[1] - p1[1]), p2[2] - MulTension(p0[2] - p1[2])>>
    IN  CurveTo(cp1, cp2, p2)

\* The Catmull-Rom segment from points[i] to its successor, i counted from
\* zero as in the code: src/main.ts 67-80.
CurveSegment(points, i) ==
    LET n == Len(points)
        p0 == points[((i - 1 + n) % n) + 1]
        p1 == points[i + 1]
        p2 == points[((i + 1) % n) + 1]
        p3 == points[((i + 2) % n) + 1]
        cp1 == <<p1[1] + MulTension(p2[1] - p0[1]), p1[2] + MulTension(p2[2] - p0[2])>>
        cp2 == <<p2[1] - MulTension(p3[1] - p1[1]), p2[2] - MulTension(p3[2] - p1[2])>>
    IN  CurveTo(cp1, cp2, p2)

\* A path whose curve stops at the last vertex and leaves closing to Z.
SmoothClosedPathOpenCurve(points) ==
    LET n == Len(points)
    IN  IF n < 3
        THEN [i \in 1..n |-> IF i = 1 THEN MoveTo(points[i]) ELSE LineTo(points[i])]
             \o <<ClosePath>>
        ELSE <<MoveTo(points[1])>>
             \o [k \in 1..(n - 1) |-> CurveSegment(points, k - 1)]
             \o <<ClosePath>>

\* smoothClosedPath(points): src/main.ts 59-84.  The string is modelled by
\* the sequence of its commands.
SmoothClosedPath(points) ==
    LET n == Len(points)
    IN  IF n < 3
        THEN [i \in 1..n |-> IF i = 1 THEN MoveTo(points[i]) ELSE LineTo(points[i])]
             \o <<ClosePath>>
        ELSE <<MoveTo(points[1])>>
             \o [k \in 1..n |-> CurveSegment(points, k - 1)]
             \o <<ClosePath>>

\* The drag rectangle of a draw: src/main.ts 419-424.
DragRect(start, cur) ==
    LET minX == Min2(start[1], cur[1])
        minY == Min2(start[2], cur[2])
        maxX == Max2(start[1], cur[1])
        maxY == Max2(start[2], cur[2])
    IN  [minX |-> minX, minY |-> minY, maxX |-> maxX, maxY |-> maxY,
         w |-> maxX - minX, h |-> maxY - minY]

\* Smallest extent of a draw that is kept, in percentage points (line 427).
MinDrawExtent == 2

\* A guard that discards a draw as soon as one extent is too small.
TooSmallEither(r) == r.w < Pct(MinDrawExtent) \/ r.h < Pct(MinDrawExtent)

\* if (w < 2 && h < 2): the draw is an accidental click (src/main.ts 427).
TooSmall(r) == r.w < Pct(MinDrawExtent) /\ r.h < Pct(MinDrawExtent)

\* Rectangle corners taken from the raw start and end points.
RectPointsRaw(start, cur) ==
    << <<start[1], start[2]>>, <<cur[1], start[2]>>,
       <<cur[1], cur[2]>>, <<start[1], cur[2]>> >>

\* points of a "rect" draw: src/main.ts 435-438.
RectPoints(start, cur) ==
    LET r == DragRect(start, cur)
    IN  << <<r.minX, r.minY>>, <<r.maxX, r.minY>>,
           <<r.maxX, r.maxY>>, <<r.minX, r.maxY>> >>

\* The number of control points of an ellipse (const segments = 8, line 446).
Segments == 8

\* sqrt(2)/2 = cos(pi/4) as SqrtHalfNum / SqrtHalfDen (off by less than 2e-10).
SqrtHalfNum == 33461

SqrtHalfDen == 47321

\* a * cos(pi/4) to the nearest unit, a >= 0, without leaving 32 bits.
MulSqrtHalf(a) ==
    LET q == a \div SqrtHalfDen
        r == a % SqrtHalfDen
        t == r * SqrtHalfNum
    IN  q * SqrtHalfNum + (t \div SqrtHalfDen)
          + (IF 2 * (t % SqrtHalfDen) >= SqrtHalfDen THEN 1 ELSE 0)

\* a * Math.cos(2 * Math.PI * i / 8) to the nearest unit (src/main.ts 448-450).
MulCos(a, i) ==
    CASE i % Segments = 0 -> a
      [] i % Segments \in {1, 7} -> MulSqrtHalf(a)
      [] i % Segments \in {2, 6} -> 0
      [] i % Segments \in {3, 5} -> -MulSqrtHalf(a)
      [] OTHER -> -a

\* a * Math.sin(2 * Math.PI * i / 8): the cosine a quarter turn earlier.
MulSin(a, i) == MulCos(a, i + 6)

\* An ellipse whose radii are the full extents of the drag rectangle.
EllipsePointsFullExtent(start, cur) ==
    LET r == DragRect(start, cur)
        cx == r.minX + r.w \div 2
        cy == r.minY + r.h \div 2
    IN  [k \in 1..Segments |->
            <<cx + MulCos(r.w, k - 1), cy + MulSin(r.h, k - 1)>>]

\* points of an "ellipse" draw: src/main.ts 439-453.
EllipsePoints(start, cur) ==
    LET r == DragRect(start, cur)
        cx == r.minX + r.w \div 2
        cy == r.minY + r.h \div 2
        rx == r.w \div 2
        ry == r.h \div 2
    IN  [k \in 1..Segments |->
            <<cx + MulCos(rx, k - 1), cy + MulSin(ry, k - 1)>>]

\* A triangle whose apex sits on the left edge instead of the centre.
TrianglePointsLeftApex(start, cur) ==
    LET r == DragRect(start, cur)
    IN  << <<r.minX, r.minY>>, <<r.minX, r.maxY>>, <<r.maxX, r.maxY>> >>

\* points of a "triangle" draw: src/main.ts 454-461.
TrianglePoints(start, cur) ==
    LET r == DragRect(start, cur)
    IN  << <<r.minX + r.w \div 2, r.minY>>, <<r.minX, r.maxY>>, <<r.maxX, r.maxY>> >>

\* The seed points onDrawUp builds for the armed tool: src/main.ts 434-461.
SeedPoints(shapeType, start, cur) ==
    IF shapeType = "rect" THEN RectPoints(start, cur)
    ELSE IF shapeType = "ellipse" THEN EllipsePoints(start, cur)
    ELSE TrianglePoints(start, cur)


(***************************************************************************)
(* Strings that the code trims are sequences of characters.                *)
(***************************************************************************)

Space == " "

RECURSIVE TrimLeft(_)
TrimLeft(s) ==
    IF s # << >> /\ s[1] = Space THEN TrimLeft(Tail(s)) ELSE s

RECURSIVE TrimRight(_)
TrimRight(s) ==
    IF s # << >> /\ s[Len(s)] = Space THEN TrimRight(SubSeq(s, 1, Len(s) - 1)) ELSE s

\* String.prototype.trim() as used in src/main.ts 696, 1145, 1153.
Trim(s) == TrimRight(TrimLeft(s))

(***************************************************************************)
(* The store: profiles and their hotspots (src/main.ts 15-54)              *)
(***************************************************************************)

\* null / "" for an id (selectedHotspotId = null, activeProfileId = "").
NoId == 0

\* The id "default" of the profile the migration synthesizes (line 1340).
DefaultProfileId == 1

\* The id of a hotspot persisted by an earlier version (a past timestamp).
LegacyHotspotId == 1

\* A hotspot as onDrawUp creates it: src/main.ts 468-474.
NewHotspot(id, points, shapeType) ==
    [id |-> id, name |-> << >>, path |-> << >>, points |-> points,
     hasPoints |-> TRUE, hasTop |-> FALSE, shapeType |-> shapeType]

\* A rectangle hotspot of the pre-polygon format (top/left/width/height, no
\* points): src/main.ts 19-23.
LegacyHotspot ==
    [id |-> LegacyHotspotId, name |-> <<"O", "l", "d">>, path |-> <<"o", "l", "d">>,
     points |-> << >>, hasPoints |-> FALSE, hasTop |-> TRUE, shapeType |-> "none"]

RECURSIVE FindIndex(_, _, _)
\* Array.prototype.findIndex(x => x.id === id), 1-based, 0 when absent.
FindIndex(seq, id, from) ==
    IF from > Len(seq) THEN 0
    ELSE IF seq[from].id = id THEN from
    ELSE FindIndex(seq, id, from + 1)

IndexOfId(seq, id) == FindIndex(seq, id, 1)

\* Array.prototype.splice(i, 1), 1-based.
RemoveAt(seq, i) == SubSeq(seq, 1, i - 1) \o SubSeq(seq, i + 1, Len(seq))

\* The hotspot list of profile pid, empty when the profile is gone.
HotspotsOf(st, pid) ==
    LET i == IndexOfId(st.profiles, pid)
    IN  IF i = 0 THEN << >> ELSE st.profiles[i].hotspots

\* Whether profile pid holds a hotspot with id hid.
HasHotspot(st, pid, hid) == IndexOfId(HotspotsOf(st, pid), hid) # 0

\* The hotspot hid of profile pid (only where HasHotspot).
HotspotOf(st, pid, hid) ==
    HotspotsOf(st, pid)[IndexOfId(HotspotsOf(st, pid), hid)]

\* Profile pid's hotspot list replaced by hs (the profile object is mutated
\* in place; nothing happens when it is no longer in the store).
WithHotspots(st, pid, hs) ==
    LET i == IndexOfId(st.profiles, pid)
    IN  IF i = 0 THEN st
        ELSE [st EXCEPT !.profiles[i].hotspots = hs]

\* hotspot.points = pts on hotspot hid of profile pid.
WithPoints(st, pid, hid, pts) ==
    LET hs == HotspotsOf(st, pid)
        j == IndexOfId(hs, hid)
    IN  IF j = 0 THEN st
        ELSE WithHotspots(st, pid, [hs EXCEPT ![j].points = pts])

\* findIndex + splice(idx, 1) of hotspot hid in profile pid
\* (src/main.ts 509-510, 706-707, 784-785, 1165-1166).
WithoutHotspot(st, pid, hid) ==
    LET hs == HotspotsOf(st, pid)
        j == IndexOfId(hs, hid)
    IN  IF j = 0 THEN st ELSE WithHotspots(st, pid, RemoveAt(hs, j))

\* settings.hotspots, the deprecated list of the data file: the list loaded
\* from the file, or, after the migration of this session, the very array
\* of the synthesized profile (src/main.ts 1336, 1343: hotspots: oldHotspots).
\* An empty list stands for a file without the field (settings.hotspots
\* || [] is then a new array, not an alias).
NoAlias == [alias |-> NoId, hotspots |-> << >>]

LegacyOf(st) ==
    IF st.legacy.alias # NoId /\ IndexOfId(st.profiles, st.legacy.alias) # 0
    THEN HotspotsOf(st, st.legacy.alias)
    ELSE st.legacy.hotspots

\* What saveData persists.
StoreOf(st) ==
    [profiles |-> st.profiles, activeProfileId |-> st.activeProfileId,
     hotspots |-> LegacyOf(st)]

\* A save that writes nothing.
SaveSettingsSkipped(st) == st

\* saveSettings(): src/main.ts 1382-1384.
SaveSettings(st) == [st EXCEPT !.saved = StoreOf(st)]


(***************************************************************************)
(* The view (class LoomView, src/main.ts 95-839).  A handler is an         *)
(* operator from the state before to the state after; st is a record of    *)
(* the store, the view's fields, the rendered DOM with the closures its    *)
(* event handlers captured, and the listeners registered on the document.  *)
(***************************************************************************)

\* drawingShapeType = null / no shapeType.
NoTool == "none"

ShapeTools == {"rect", "ellipse", "triangle"}

\* At most this many keydown listeners are told apart: a listener beyond
\* the undo stack's depth finds nothing left to do.
MaxKeyHandlers == 2

\* No draw in progress: isDragging = false, previewShape = null.
DrawIdle ==
    [dragging |-> FALSE, start |-> <<0, 0>>, cur |-> <<0, 0>>,
     tool |-> NoTool, profile |-> NoId]

\* No vertex or shape drag in progress (no move/up listeners attached).
DragIdle ==
    [kind |-> "none", hotspot |-> NoId, profile |-> NoId, idx |-> 0,
     orig |-> << >>, start |-> <<0, 0>>]

\* new Notice(text)
Notice(st, text) == [st EXCEPT !.notice = text]

\* getCurrentProfile(): src/main.ts 139-146.
GetCurrentProfile(st) ==
    IF st.activeProfileId = NoId /\ Len(st.profiles) > 0
    THEN SaveSettings([st EXCEPT !.activeProfileId = st.profiles[1].id])
    ELSE st

\* A hotspot the render loop draws: src/main.ts 528, 538, 548-550.
Renderable(h) == (h.hasPoints /\ Len(h.points) > 0) \/ h.hasTop

\* A render that gives edit affordances only while edit mode is on.
ShapeModeEditOnly(st, h) ==
    IF st.isEditMode /\ st.editingEdgesHotspotId = h.id /\ h.hasPoints THEN "edge"
    ELSE IF st.isEditMode THEN "menu"
    ELSE "view"

\* Which handlers a rendered shape gets: src/main.ts 552, 613, 750, 819.
ShapeMode(st, h) ==
    IF st.editingEdgesHotspotId = h.id /\ h.hasPoints THEN "edge"
    ELSE IF st.isEditMode THEN "menu"
    ELSE "view"

\* A render that draws the legacy rectangle whenever there is one.
ShapeKindTopWins(h) ==
    IF h.hasTop THEN "rect"
    ELSE IF h.hasPoints /\ Len(h.points) > 0
    THEN (IF h.shapeType = "ellipse" THEN "path" ELSE "polygon")
    ELSE "none"

\* The SVG element a hotspot is drawn as: src/main.ts 528-550.
ShapeKind(h) ==
    IF h.hasPoints /\ Len(h.points) > 0
    THEN (IF h.shapeType = "ellipse" THEN "path" ELSE "polygon")
    ELSE IF h.hasTop THEN "rect"
    ELSE "none"

\* The shapes of the display layer, in render order: src/main.ts 524-838.
DomShapes(st, hs) ==
    LET shown == SelectSeq(hs, Renderable)
    IN  [i \in 1..Len(shown) |-> [id |-> shown[i].id, kind |-> ShapeKind(shown[i]),
                                  mode |-> ShapeMode(st, shown[i])]]

\* document.addEventListener("keydown", edgeEditKeyHandler): src/main.ts
\* 489, 519-521.  The listener stays until the view unloads.
AddKeyHandler(st, pid) ==
    IF st.isEditMode /\ st.editingEdgesHotspotId # NoId
       /\ Len(st.keyHandlers) < MaxKeyHandlers
    THEN [st EXCEPT !.keyHandlers = Append(@, pid)]
    ELSE st

\* The options of the profile selector, one per profile: src/main.ts 218-226.
SelectOptions(st) == [i \in 1..Len(st.profiles) |-> st.profiles[i].id]

\* The option the selector shows: the active profile's, else the first of
\* the list, which is "Add New Profile..." (NoId) when there is no profile.
SelectedOption(st) ==
    IF IndexOfId(st.profiles, st.activeProfileId) # 0 THEN st.activeProfileId
    ELSE IF st.profiles # << >> THEN st.profiles[1].id
    ELSE NoId

\* No file panel in the container (container.empty(), src/main.ts 150; the
\* panel is a child of the container, 928, 942).
NoPanel == [shown |-> FALSE, title |-> << >>, list |-> "none"]

\* renderRoom(): src/main.ts 148-839.  The selector is filled (213-227)
\* before getCurrentProfile is called (241).
RenderRoom(st) ==
    LET s1 == GetCurrentProfile(st)
        i  == IndexOfId(s1.profiles, s1.activeProfileId)
        select == [on |-> ~st.isEditMode, options |-> SelectOptions(st),
                   selected |-> SelectedOption(st)]
    IN  IF i = 0
        THEN [s1 EXCEPT !.dom = [profile |-> NoId, toolbar |-> s1.isEditMode,
                                 tool |-> NoTool, shapes |-> << >>,
                                 select |-> select, panel |-> NoPanel]]
        ELSE [AddKeyHandler(s1, s1.activeProfileId) EXCEPT
                 !.dom = [profile |-> s1.activeProfileId,
                          toolbar |-> s1.isEditMode,
                          tool |-> IF s1.isEditMode THEN s1.drawingShapeType ELSE NoTool,
                          shapes |-> DomShapes(s1, s1.profiles[i].hotspots),
                          select |-> select, panel |-> NoPanel]]

\* The rendered shape of hotspot hid has handlers of this mode.
DomHas(st, hid, mode) ==
    \E i \in 1..Len(st.dom.shapes) :
        st.dom.shapes[i].id = hid /\ st.dom.shapes[i].mode = mode

\* A toggle that also leaves edge editing.
ToggleEditModeLeavingEdges(st) ==
    LET s1 == IF st.isEditMode THEN Notice(SaveSettings(st), "Layout saved!") ELSE st
    IN  RenderRoom([s1 EXCEPT !.isEditMode = ~st.isEditMode,
                              !.selectedHotspotId = NoId,
                              !.drawingShapeType = NoTool,
                              !.editingEdgesHotspotId = NoId,
                              !.undoStack = << >>])

\* editModeBtn.onclick: src/main.ts 165-175.
ToggleEditMode(st) ==
    LET s1 == IF st.isEditMode THEN Notice(SaveSettings(st), "Layout saved!") ELSE st
    IN  RenderRoom([s1 EXCEPT !.isEditMode = ~st.isEditMode,
                              !.selectedHotspotId = NoId,
                              !.drawingShapeType = NoTool])

\* A tool button that always arms its tool.
ToolClickNoToggle(st, tool) ==
    RenderRoom([st EXCEPT !.drawingShapeType = tool, !.selectedHotspotId = NoId])

\* Shape tool btn.onclick: src/main.ts 195-204.
ToolClick(st, tool) ==
    IF st.drawingShapeType = tool
    THEN RenderRoom([st EXCEPT !.drawingShapeType = NoTool])
    ELSE RenderRoom([st EXCEPT !.drawingShapeType = tool, !.selectedHotspotId = NoId])

\* imageContainer.onmousedown: src/main.ts 330-371 (button 0, inside the image).
DrawDown(st, p) ==
    [st EXCEPT !.draw = [dragging |-> TRUE, start |-> p, cur |-> p,
                         tool |-> st.dom.tool, profile |-> st.dom.profile]]

\* onDrawMove: src/main.ts 373-408 (the preview follows the clamped pointer).
DrawMove(st, p) == [st EXCEPT !.draw.cur = ClampPt(p)]

\* What Date.now() may return at an event after the last id was handed out:
\* the clock has advanced by one of ticks milliseconds since.
DateNow(st, ticks) == {st.now + d : d \in ticks}

\* A pointer-up that keeps every draw, however small.
OnDrawUpKeepAll(st, p, id) ==
    LET cur == ClampPt(p)
        points == SeedPoints(st.draw.tool, st.draw.start, cur)
        pid == st.draw.profile
        s1 == WithHotspots(st, pid,
                  Append(HotspotsOf(st, pid), NewHotspot(id, points, st.draw.tool)))
    IN  RenderRoom(SaveSettings(
            [s1 EXCEPT !.draw = DrawIdle, !.now = id,
                       !.selectedHotspotId = id,
                       !.editingEdgesHotspotId = id,
                       !.drawingShapeType = NoTool,
                       !.undoStack = <<points>>]))

\* A pointer-up that commits the shape and leaves the tool armed.
OnDrawUpKeepTool(st, p, id) ==
    LET cur == ClampPt(p)
        r == DragRect(st.draw.start, cur)
        points == SeedPoints(st.draw.tool, st.draw.start, cur)
        pid == st.draw.profile
        s1 == WithHotspots(st, pid,
                  Append(HotspotsOf(st, pid), NewHotspot(id, points, st.draw.tool)))
    IN  IF TooSmall(r)
        THEN [st EXCEPT !.draw = DrawIdle]
        ELSE RenderRoom(SaveSettings(
                [s1 EXCEPT !.draw = DrawIdle, !.now = id,
                           !.selectedHotspotId = id,
                           !.editingEdgesHotspotId = id,
                           !.undoStack = <<points>>]))

\* onDrawUp: src/main.ts 410-482.
OnDrawUp(st, p, id) ==
    LET cur == ClampPt(p)
        r == DragRect(st.draw.start, cur)
        points == SeedPoints(st.draw.tool, st.draw.start, cur)
        pid == st.draw.profile
        s1 == WithHotspots(st, pid,
                  Append(HotspotsOf(st, pid), NewHotspot(id, points, st.draw.tool)))
    IN  IF TooSmall(r)
        THEN [st EXCEPT !.draw = DrawIdle]
        ELSE RenderRoom(SaveSettings(
                [s1 EXCEPT !.draw = DrawIdle, !.now = id,
                           !.selectedHotspotId = id,
                           !.editingEdgesHotspotId = id,
                           !.drawingShapeType = NoTool,
                           !.undoStack = <<points>>]))


\* The undo branch popping the snapshot and restoring the one it popped.
UndoRestorePopped(st, pid) ==
    LET hid == st.editingEdgesHotspotId
        n == Len(st.undoStack)
    IN  IF n > 1
        THEN Notice(RenderRoom(
                 WithPoints([st EXCEPT !.undoStack = SubSeq(@, 1, n - 1)],
                            pid, hid, st.undoStack[n])), "Undo!")
        ELSE Notice(st, "Nothing to undo")

\* The Ctrl+Z branch of edgeEditKeyHandler: src/main.ts 495-505.
Undo(st, pid) ==
    LET hid == st.editingEdgesHotspotId
        n == Len(st.undoStack)
    IN  IF n > 1
        THEN Notice(RenderRoom(
                 WithPoints([st EXCEPT !.undoStack = SubSeq(@, 1, n - 1)],
                            pid, hid, st.undoStack[n - 1])), "Undo!")
        ELSE Notice(st, "Nothing to undo")

\* A delete that leaves the editor in edge editing.
DeleteEditedKeepEditing(st, pid, hid) ==
    Notice(RenderRoom(SaveSettings(
        [WithoutHotspot(st, pid, hid) EXCEPT !.selectedHotspotId = NoId])),
        "Shape deleted")

\* Delete the shape: the Escape branch (src/main.ts 506-517) and
\* cancelBtn.onclick (src/main.ts 704-714) run the same statements.
DeleteEdited(st, pid, hid) ==
    Notice(RenderRoom(SaveSettings(
        [WithoutHotspot(st, pid, hid) EXCEPT !.editingEdgesHotspotId = NoId,
                                             !.selectedHotspotId = NoId,
                                             !.undoStack = << >>])),
        "Shape deleted")

\* One edgeEditKeyHandler listener, registered by a render of profile pid,
\* handling one keydown: src/main.ts 490-518.
EdgeEditKeyHandler(st, pid, key) ==
    LET hid == st.editingEdgesHotspotId
    IN  IF hid = NoId THEN st
        ELSE IF ~HasHotspot(st, pid, hid) THEN st
        ELSE IF ~HotspotOf(st, pid, hid).hasPoints THEN st
        ELSE IF key = "z" THEN Undo(st, pid)
        ELSE DeleteEdited(st, pid, hid)

RECURSIVE RunKeyHandlers(_, _, _)
\* The listeners registered when the event is dispatched run in order.
RunKeyHandlers(st, listeners, key) ==
    IF listeners = << >> THEN st
    ELSE RunKeyHandlers(EdgeEditKeyHandler(st, listeners[1], key), Tail(listeners), key)

\* Only the first registered listener handles the key.
KeyDownFirstOnly(st, key) ==
    IF st.keyHandlers = << >> THEN st
    ELSE EdgeEditKeyHandler(st, st.keyHandlers[1], key)

\* A keydown on the document: every edgeEditKeyHandler registered by the
\* renders so far receives it (src/main.ts 519).
KeyDown(st, key) == RunKeyHandlers(st, st.keyHandlers, key)

\* A handle press that starts the drag without taking a snapshot.
HandleDownNoSnapshot(st, hid, idx) ==
    [st EXCEPT !.drag = [kind |-> "handle", hotspot |-> hid, profile |-> st.dom.profile,
                         idx |-> idx, orig |-> << >>, start |-> <<0, 0>>]]

\* handle.onmousedown: src/main.ts 628-632, 667-668.
HandleDown(st, hid, idx) ==
    [st EXCEPT !.undoStack = Append(@, HotspotOf(st, st.dom.profile, hid).points),
               !.drag = [kind |-> "handle", hotspot |-> hid, profile |-> st.dom.profile,
                         idx |-> idx, orig |-> << >>, start |-> <<0, 0>>]]

\* A handle move that stores the raw pointer position.
OnHandleMoveUnclamped(st, p) ==
    LET pid == st.drag.profile
        hid == st.drag.hotspot
    IN  IF HasHotspot(st, pid, hid)
        THEN WithPoints(st, pid, hid,
                 [HotspotOf(st, pid, hid).points EXCEPT ![st.drag.idx] = p])
        ELSE st

\* onHandleMove: src/main.ts 634-659.
OnHandleMove(st, p) ==
    LET pid == st.drag.profile
        hid == st.drag.hotspot
    IN  IF HasHotspot(st, pid, hid)
        THEN WithPoints(st, pid, hid,
                 [HotspotOf(st, pid, hid).points EXCEPT ![st.drag.idx] = ClampPt(p)])
        ELSE st

\* onHandleUp: src/main.ts 661-665.
OnHandleUp(st) == SaveSettings([st EXCEPT !.drag = DragIdle])

\* shape.onmousedown in edge editing: src/main.ts 717-724, 745-746.
ShapeDown(st, hid, p) ==
    LET pts == HotspotOf(st, st.dom.profile, hid).points
    IN  [st EXCEPT !.undoStack = Append(@, pts),
                   !.drag = [kind |-> "shape", hotspot |-> hid, profile |-> st.dom.profile,
                             idx |-> 0, orig |-> pts, start |-> p]]

\* A translation that keeps every vertex inside the image.
TranslateClamped(pts, dx, dy) ==
    [i \in 1..Len(pts) |-> ClampPt(<<pts[i][1] + dx, pts[i][2] + dy>>)]

\* origPts.map(p => [p[0] + dx, p[1] + dy]): src/main.ts 727-729.
Translate(pts, dx, dy) ==
    [i \in 1..Len(pts) |-> <<pts[i][1] + dx, pts[i][2] + dy>>]

\* onMove of a whole-shape drag: src/main.ts 726-736.
OnShapeMove(st, p) ==
    WithPoints(st, st.drag.profile, st.drag.hotspot,
               Translate(st.drag.orig, p[1] - st.drag.start[1], p[2] - st.drag.start[2]))

\* onUp of a whole-shape drag: src/main.ts 738-743.
OnShapeUp(st) == RenderRoom(SaveSettings([st EXCEPT !.drag = DragIdle]))

\* showNewRegionModal(hotspot, profile) opens a modal: src/main.ts 1099-1101.
ShowNewRegionModal(st, pid, hid) ==
    [st EXCEPT !.modals = Append(@, [hotspot |-> hid, profile |-> pid])]

\* A confirm that never asks for a name.
ConfirmClickSkipNaming(st, hid) ==
    RenderRoom(SaveSettings(
        [st EXCEPT !.editingEdgesHotspotId = NoId, !.undoStack = << >>]))

\* confirmBtn.onclick: src/main.ts 692-702.
ConfirmClick(st, hid) ==
    LET pid == st.dom.profile
        s1 == [st EXCEPT !.editingEdgesHotspotId = NoId, !.undoStack = << >>]
    IN  IF Trim(HotspotOf(st, pid, hid).name) = << >>
        THEN ShowNewRegionModal(s1, pid, hid)
        ELSE RenderRoom(SaveSettings(s1))

\* cancelBtn.onclick: src/main.ts 704-714.
CancelClick(st, hid) == DeleteEdited(st, st.dom.profile, hid)

\* The "Edit Edges" item of a shape's menu: src/main.ts 772-777.
MenuEditEdges(st, hid) ==
    LET h == HotspotOf(st, st.dom.profile, hid)
    IN  RenderRoom([st EXCEPT !.editingEdgesHotspotId = hid,
                              !.selectedHotspotId = hid,
                              !.undoStack = IF h.hasPoints THEN <<h.points>> ELSE << >>])

\* The "Delete Region" item of a shape's menu: src/main.ts 783-790.
MenuDelete(st, hid) ==
    Notice(RenderRoom(SaveSettings(
        [WithoutHotspot(st, st.dom.profile, hid) EXCEPT !.selectedHotspotId = NoId])),
        "Deleted")

\* hotspot.name = name; hotspot.path = path (src/main.ts 1152-1153).
WithLabel(st, pid, hid, name, path) ==
    LET hs == HotspotsOf(st, pid)
        j == IndexOfId(hs, hid)
    IN  IF j = 0 THEN st
        ELSE WithHotspots(st, pid, [hs EXCEPT ![j].name = name, ![j].path = path])

\* A save button that accepts an empty name.
ModalSaveUnchecked(st, k, nameInput, pathInput) ==
    LET m == st.modals[k]
        s1 == WithLabel(st, m.profile, m.hotspot, nameInput, pathInput)
    IN  Notice(RenderRoom(SaveSettings(
            [s1 EXCEPT !.selectedHotspotId = m.hotspot,
                       !.modals = RemoveAt(@, k)])), "Region created")

\* saveBtn.onclick of the k-th open naming modal: src/main.ts 1144-1161.
ModalSave(st, k, nameInput, pathInput) ==
    LET m == st.modals[k]
        name == Trim(nameInput)
        s1 == WithLabel(st, m.profile, m.hotspot, name, Trim(pathInput))
    IN  IF name = << >>
        THEN Notice(st, "Please enter a region name!")
        ELSE Notice(RenderRoom(SaveSettings(
                 [s1 EXCEPT !.selectedHotspotId = m.hotspot,
                            !.drawingShapeType = NoTool,
                            !.modals = RemoveAt(@, k)])), "Region created")

\* cancelBtn.onclick of the k-th open naming modal: src/main.ts 1163-1172.
ModalCancel(st, k) ==
    LET m == st.modals[k]
    IN  RenderRoom(SaveSettings(
            [WithoutHotspot(st, m.profile, m.hotspot) EXCEPT
                !.drawingShapeType = NoTool,
                !.selectedHotspotId = NoId,
                !.modals = RemoveAt(@, k)]))


(***************************************************************************)
(* State                                                                   *)
(***************************************************************************)

VARIABLES
    profiles,               \* settings.profiles
    activeProfileId,        \* settings.activeProfileId
    saved,                  \* what the last saveData call persisted
    isEditMode,             \* LoomView.isEditMode
    selectedHotspotId,      \* LoomView.selectedHotspotId
    drawingShapeType,       \* LoomView.drawingShapeType
    editingEdgesHotspotId,  \* LoomView.editingEdgesHotspotId
    undoStack,              \* LoomView.undoStack
    dom,                    \* what the last renderRoom() put on screen
    draw,                   \* the closure of the draw in progress
    drag,                   \* the closure of the vertex/shape drag in progress
    keyHandlers,            \* keydown listeners on the document, by profile
    modals,                 \* open "Name This Region" modals
    profileModals,          \* how many "Create New Profile" modals are open
    notice,                 \* the Notice the last event showed, "" for none
    now,                    \* the last timestamp Date.now() handed out
    legacy,                 \* settings.hotspots (deprecated field)
    migrations,             \* history: how often onload synthesized a profile
    gestures,               \* history: vertex and shape drags begun so far
    ev,                     \* history: the last input event handled
    hist,                   \* history: the gestures of this edge-editing session
    io                      \* history: the input the last event carried

vars == <<profiles, activeProfileId, saved, isEditMode, selectedHotspotId,
          drawingShapeType, editingEdgesHotspotId, undoStack, dom, draw, drag,
          keyHandlers, modals, profileModals, notice, now, legacy, migrations,
          gestures, ev, hist, io>>

\* The program state as the record the handlers work on.  notice holds the
\* Notice of the event being handled: it starts empty.
St ==
    [profiles |-> profiles, activeProfileId |-> activeProfileId, saved |-> saved,
     isEditMode |-> isEditMode, selectedHotspotId |-> selectedHotspotId,
     drawingShapeType |-> drawingShapeType,
     editingEdgesHotspotId |-> editingEdgesHotspotId, undoStack |-> undoStack,
     dom |-> dom, draw |-> draw, drag |-> drag, keyHandlers |-> keyHandlers,
     modals |-> modals, profileModals |-> profileModals, notice |-> "",
     now |-> now, legacy |-> legacy, migrations |-> migrations]

\* The next state is the record a handler returned.
Becomes(new) ==
    /\ profiles' = new.profiles
    /\ activeProfileId' = new.activeProfileId
    /\ saved' = new.saved
    /\ isEditMode' = new.isEditMode
    /\ selectedHotspotId' = new.selectedHotspotId
    /\ drawingShapeType' = new.drawingShapeType
    /\ editingEdgesHotspotId' = new.editingEdgesHotspotId
    /\ undoStack' = new.undoStack
    /\ dom' = new.dom
    /\ draw' = new.draw
    /\ drag' = new.drag
    /\ keyHandlers' = new.keyHandlers
    /\ modals' = new.modals
    /\ profileModals' = new.profileModals
    /\ legacy' = new.legacy
    /\ migrations' = new.migrations
    /\ notice' = new.notice
    /\ now' = new.now

(***************************************************************************)
(* Bounds and inputs                                                       *)
(***************************************************************************)

\* Timestamps handed out: at most MaxNow - 1 shapes are ever drawn.
MaxNow == 2

\* Vertex and whole-shape drags begun in one run.
MaxGestures == 2

\* Naming modals open at once.
MaxModals == 1

Pt(x, y) == <<Pct(x), Pct(y)>>

\* A pointer position left of and below the image.
OutsidePt == <<Pct(120), -Pct(10)>>

\* Where a draw starts and ends.
DrawStarts == {Pt(10, 10)}

DrawEnds == {Pt(40, 40), Pt(11, 11)}

\* The handles a vertex drag is tried on: the first MaxHandle of a shape.
MaxHandle == 1

\* Where a dragged handle is moved to.
HandleTargets == {Pt(20, 30), OutsidePt}

\* Where the pointer grabs a shape, and where it moves it to.
ShapeGrab == Pt(20, 20)

ShapeTargets == {ShapeGrab, Pt(90, 20)}

Desk == <<"D", "e", "s", "k">>

NotesDesk == <<"n", "o", "t", "e", "s", "/", "d", "e", "s", "k">>

\* What is typed into the naming modal.
NameInputs == {<< >>, <<Space>>, Desk, <<Space>> \o Desk}

PathInputs == {NotesDesk}

(***************************************************************************)
(* History variables                                                       *)
(***************************************************************************)

\* The last event carried no input the properties refer to.
IoNone == [op |-> "none"]

\* No edge-editing session.
HistIdle ==
    [entry |-> << >>, fresh |-> FALSE, vdrags |-> 0, sdrags |-> 0,
     undone |-> FALSE, pre |-> << >>]

\* A session entered with vertex list pts; fresh: by drawing the shape.
HistEnter(pts, fresh) ==
    [entry |-> pts, fresh |-> fresh, vdrags |-> 0, sdrags |-> 0,
     undone |-> FALSE, pre |-> << >>]

\* The session's history ends with the session.
HistKeep(new, h) == IF new.editingEdgesHotspotId = NoId THEN HistIdle ELSE h

\* No pointer gesture is in progress: the pointer is free to click.
MouseFree == ~draw.dragging /\ drag.kind = "none"

\* The ids of the shapes on screen.
DomIds == {dom.shapes[i].id : i \in 1..Len(dom.shapes)}

(***************************************************************************)
(* Actions: one per input event                                            *)
(***************************************************************************)

\* A click on the edit-mode button.
ToggleEditModeAct ==
    /\ MouseFree
    /\ LET new == ToggleEditMode(St)
       IN  Becomes(new) /\ hist' = HistKeep(new, hist)
    /\ ev' = "toggle"
    /\ io' = IoNone
    /\ UNCHANGED gestures

\* A click on a shape tool button (rendered while edit mode is on).
ToolClickAct ==
    /\ MouseFree
    /\ dom.toolbar
    /\ \E tool \in ShapeTools :
          LET new == ToolClick(St, tool)
          IN  /\ Becomes(new)
              /\ hist' = HistKeep(new, hist)
              /\ io' = [op |-> "tool", tool |-> tool]
    /\ ev' = "tool"
    /\ UNCHANGED gestures

\* The metadata cache reports a change: the view renders again (lines 133-135).
RenderAct ==
    /\ LET new == RenderRoom(St)
       IN  Becomes(new) /\ hist' = HistKeep(new, hist)
    /\ ev' = "render"
    /\ io' = IoNone
    /\ UNCHANGED gestures

\* The left button goes down on the image while a tool is armed and the
\* run has room for another shape.
DrawDownWhile(room) ==
    /\ MouseFree
    /\ dom.tool # NoTool
    /\ room
    /\ \E p \in DrawStarts :
          /\ InsideImage(p)
          /\ Becomes(DrawDown(St, p))
    /\ ev' = "drawDown"
    /\ io' = IoNone
    /\ UNCHANGED <<hist, gestures>>

DrawDownAct == DrawDownWhile(now < MaxNow)

\* The pointer moves during a draw.
DrawMoveAct ==
    /\ draw.dragging
    /\ \E p \in DrawEnds : Becomes(DrawMove(St, p))
    /\ ev' = "drawMove"
    /\ io' = IoNone
    /\ UNCHANGED <<hist, gestures>>

\* The button is released during a draw, the pointer at one of ends and
\* the clock one of ticks later than the last id.
DrawUpAt(ends, ticks) ==
    /\ draw.dragging
    /\ \E p \in ends : \E t \in DateNow(St, ticks) :
          LET new == OnDrawUp(St, p, t)
          IN  /\ Becomes(new)
              /\ hist' = LET was == HotspotsOf(St, draw.profile)
                             is == HotspotsOf(new, draw.profile)
                         IN  IF Len(is) > Len(was)
                             THEN HistEnter(is[Len(is)].points, TRUE)
                             ELSE HistKeep(new, hist)
              /\ io' = [op |-> "draw", tool |-> draw.tool, start |-> draw.start,
                        cur |-> p]
    /\ ev' = "drawUp"
    /\ UNCHANGED gestures

\* Between two draws the clock advances.
DrawTicks == {1}

DrawUpAct == DrawUpAt(DrawEnds, DrawTicks)

\* Ctrl+Z while a keydown listener is registered.
KeyUndoAct ==
    /\ keyHandlers # << >>
    /\ LET new == KeyDown(St, "z")
       IN  /\ Becomes(new)
           /\ hist' = HistKeep(new, [hist EXCEPT !.undone = TRUE])
    /\ ev' = "undo"
    /\ io' = [op |-> "undo", depth |-> Len(undoStack)]
    /\ UNCHANGED gestures

\* Escape while a keydown listener is registered.
KeyEscapeAct ==
    /\ keyHandlers # << >>
    /\ LET new == KeyDown(St, "Escape")
       IN  Becomes(new) /\ hist' = HistKeep(new, hist)
    /\ ev' = "escape"
    /\ io' = IoNone
    /\ UNCHANGED gestures

\* The button goes down on a vertex handle.
HandleDownAct ==
    /\ MouseFree
    /\ gestures < MaxGestures
    /\ \E hid \in DomIds :
          /\ DomHas(St, hid, "edge")
          /\ HasHotspot(St, dom.profile, hid)
          /\ \E idx \in 1..Min2(MaxHandle, Len(HotspotOf(St, dom.profile, hid).points)) :
                LET new == HandleDown(St, hid, idx)
                IN  /\ Becomes(new)
                    /\ hist' = IF editingEdgesHotspotId = hid
                               THEN [hist EXCEPT !.vdrags = @ + 1,
                                                 !.pre = HotspotOf(St, dom.profile, hid).points]
                               ELSE hist
    /\ ev' = "handleDown"
    /\ gestures' = gestures + 1
    /\ io' = IoNone

\* The pointer moves during a vertex drag.
HandleMoveAct ==
    /\ drag.kind = "handle"
    /\ \E p \in HandleTargets :
          /\ Becomes(OnHandleMove(St, p))
          /\ io' = [op |-> "handleMove", p |-> p]
    /\ ev' = "handleMove"
    /\ UNCHANGED <<hist, gestures>>

\* The button is released during a vertex drag.
HandleUpAct ==
    /\ drag.kind = "handle"
    /\ Becomes(OnHandleUp(St))
    /\ ev' = "handleUp"
    /\ io' = IoNone
    /\ UNCHANGED <<hist, gestures>>

\* The button goes down on the shape being edge-edited.
ShapeDownAct ==
    /\ MouseFree
    /\ gestures < MaxGestures
    /\ \E hid \in DomIds :
          /\ DomHas(St, hid, "edge")
          /\ HasHotspot(St, dom.profile, hid)
          /\ LET new == ShapeDown(St, hid, ShapeGrab)
             IN  /\ Becomes(new)
                 /\ hist' = IF editingEdgesHotspotId = hid
                            THEN [hist EXCEPT !.sdrags = @ + 1,
                                              !.pre = HotspotOf(St, dom.profile, hid).points]
                            ELSE hist
    /\ ev' = "shapeDown"
    /\ gestures' = gestures + 1
    /\ io' = IoNone

\* The pointer moves during a whole-shape drag.
ShapeMoveAct ==
    /\ drag.kind = "shape"
    /\ \E p \in ShapeTargets :
          /\ Becomes(OnShapeMove(St, p))
          /\ io' = [op |-> "shapeMove", p |-> p]
    /\ ev' = "shapeMove"
    /\ UNCHANGED <<hist, gestures>>

\* The button is released during a whole-shape drag.
ShapeUpAct ==
    /\ drag.kind = "shape"
    /\ LET new == OnShapeUp(St)
       IN  Becomes(new)
    /\ ev' = "shapeUp"
    /\ io' = IoNone
    /\ UNCHANGED <<hist, gestures>>

\* A click on the confirm button of the shape being edge-edited.
ConfirmAct ==
    /\ MouseFree
    /\ \E hid \in DomIds :
          /\ DomHas(St, hid, "edge")
          /\ HasHotspot(St, dom.profile, hid)
          /\ Len(modals) < MaxModals
          /\ Becomes(ConfirmClick(St, hid))
          /\ io' = [op |-> "confirm", hotspot |-> hid]
    /\ hist' = HistIdle
    /\ ev' = "confirm"
    /\ UNCHANGED gestures

\* A click on the cancel button of the shape being edge-edited.
CancelAct ==
    /\ MouseFree
    /\ \E hid \in DomIds :
          /\ DomHas(St, hid, "edge")
          /\ Becomes(CancelClick(St, hid))
    /\ hist' = HistIdle
    /\ ev' = "cancel"
    /\ io' = IoNone
    /\ UNCHANGED gestures

\* A click on a shape in edit mode, then on "Edit Edges".
MenuEditEdgesAct ==
    /\ MouseFree
    /\ \E hid \in DomIds :
          /\ DomHas(St, hid, "menu")
          /\ HasHotspot(St, dom.profile, hid)
          /\ LET new == MenuEditEdges(St, hid)
             IN  /\ Becomes(new)
                 /\ hist' = HistEnter(HotspotOf(St, dom.profile, hid).points, FALSE)
    /\ ev' = "editEdges"
    /\ io' = IoNone
    /\ UNCHANGED gestures

\* A click on a shape in edit mode, then on "Delete Region".
MenuDeleteAct ==
    /\ MouseFree
    /\ \E hid \in DomIds :
          /\ DomHas(St, hid, "menu")
          /\ LET new == MenuDelete(St, hid)
             IN  Becomes(new) /\ hist' = HistKeep(new, hist)
    /\ ev' = "delete"
    /\ io' = IoNone
    /\ UNCHANGED gestures

\* A click on "Save Region" of an open naming modal.
ModalSaveWith(names, paths) ==
    /\ MouseFree
    /\ \E k \in 1..Len(modals) : \E n \in names : \E p \in paths :
          LET new == ModalSave(St, k, n, p)
          IN  /\ Becomes(new)
              /\ hist' = HistKeep(new, hist)
              /\ io' = [op |-> "name", hotspot |-> modals[k].hotspot,
                        name |-> n, path |-> p]
    /\ ev' = "modalSave"
    /\ UNCHANGED gestures

ModalSaveAct == ModalSaveWith(NameInputs, PathInputs)

\* A click on "Cancel" of an open naming modal.
ModalCancelAct ==
    /\ MouseFree
    /\ \E k \in 1..Len(modals) :
          LET new == ModalCancel(St, k)
          IN  /\ Becomes(new)
              /\ hist' = HistKeep(new, hist)
              /\ io' = [op |-> "nameCancel", hotspot |-> modals[k].hotspot]
    /\ ev' = "modalCancel"
    /\ UNCHANGED gestures

(***************************************************************************)
(* Initial state and specification                                         *)
(***************************************************************************)


\* What loadData returned: nothing, or a legacy rectangle hotspot.
PersistedHotspots == {<< >>, <<LegacyHotspot>>}

\* The data file of a version without profiles, holding the hotspots hs.
OldData(hs) == [profiles |-> << >>, activeProfileId |-> NoId, hotspots |-> hs]

\* The ids found in a data file.
DiskIds(data) ==
    {data.hotspots[k].id : k \in 1..Len(data.hotspots)}
    \cup {data.profiles[i].id : i \in 1..Len(data.profiles)}
    \cup UNION {{data.profiles[i].hotspots[k].id :
                    k \in 1..Len(data.profiles[i].hotspots)} :
                i \in 1..Len(data.profiles)}

\* The latest timestamp in a data file: the clock reads later than it.
DiskClock(data) ==
    CHOOSE t \in DiskIds(data) \cup {LegacyHotspotId} :
        \A u \in DiskIds(data) \cup {LegacyHotspotId} : u <= t

\* Nothing on screen: the view has not rendered yet.
NoDom ==
    [profile |-> NoId, toolbar |-> FALSE, tool |-> NoTool, shapes |-> << >>,
     select |-> [on |-> FALSE, options |-> << >>, selected |-> NoId],
     panel |-> NoPanel]

\* The plugin and its view as constructed, before onload: DEFAULT_SETTINGS
\* (src/main.ts 50-54) and the field initialisers of LoomView (98-108);
\* saved is the data file.
Constructed(data) ==
    [profiles |-> << >>, activeProfileId |-> NoId,
     saved |-> [profiles |-> data.profiles,
                activeProfileId |-> data.activeProfileId,
                hotspots |-> data.hotspots],
     isEditMode |-> FALSE, selectedHotspotId |-> NoId,
     drawingShapeType |-> NoTool, editingEdgesHotspotId |-> NoId,
     undoStack |-> << >>, dom |-> NoDom,
     draw |-> DrawIdle, drag |-> DragIdle, keyHandlers |-> << >>,
     modals |-> << >>, profileModals |-> 0, notice |-> "",
     now |-> DiskClock(data), legacy |-> NoAlias, migrations |-> 0]

\* loadSettings(): src/main.ts 1378-1380.  Object.assign copies the fields
\* of the file over the defaults as they are.
LoadSettings(st, data) ==
    [st EXCEPT !.profiles = data.profiles,
               !.activeProfileId = data.activeProfileId,
               !.legacy = [alias |-> NoId, hotspots |-> data.hotspots]]

\* LoomViewPlugin.onload: src/main.ts 1331-1352.
OnLoad(st, data) ==
    LET s1 == LoadSettings(st, data)
    IN  IF Len(s1.profiles) = 0
        THEN SaveSettings(
                 [s1 EXCEPT !.profiles = <<[id |-> DefaultProfileId,
                                            hotspots |-> s1.legacy.hotspots]>>,
                            !.activeProfileId = DefaultProfileId,
                            !.legacy.alias = IF s1.legacy.hotspots # << >>
                                             THEN DefaultProfileId ELSE NoId,
                            !.migrations = @ + 1])
        ELSE s1

\* LoomView.onOpen: src/main.ts 130-136.
OnOpen(st) == RenderRoom(st)

\* The state onload and the first renderRoom leave for the hotspots hs of
\* an old version.
Loaded(hs) == OnOpen(OnLoad(Constructed(OldData(hs)), OldData(hs)))

\* The program is in the state st.
Holds(st) ==
    /\ profiles = st.profiles
    /\ activeProfileId = st.activeProfileId
    /\ saved = st.saved
    /\ isEditMode = st.isEditMode
    /\ selectedHotspotId = st.selectedHotspotId
    /\ drawingShapeType = st.drawingShapeType
    /\ editingEdgesHotspotId = st.editingEdgesHotspotId
    /\ undoStack = st.undoStack
    /\ dom = st.dom
    /\ draw = st.draw
    /\ drag = st.drag
    /\ keyHandlers = st.keyHandlers
    /\ modals = st.modals
    /\ profileModals = st.profileModals
    /\ notice = st.notice
    /\ now = st.now
    /\ legacy = st.legacy
    /\ migrations = st.migrations

\* The view starts in the state st, with no history.
StartsAs(st) ==
    /\ Holds(st)
    /\ gestures = 0
    /\ ev = "open"
    /\ hist = HistIdle

InitView == \E hs \in PersistedHotspots : StartsAs(Loaded(hs))

Init == InitView /\ io = IoNone

Next ==
    \/ ToggleEditModeAct
    \/ ToolClickAct
    \/ RenderAct
    \/ DrawDownAct
    \/ DrawMoveAct
    \/ DrawUpAct
    \/ KeyUndoAct
    \/ KeyEscapeAct
    \/ HandleDownAct
    \/ HandleMoveAct
    \/ HandleUpAct
    \/ ShapeDownAct
    \/ ShapeMoveAct
    \/ ShapeUpAct
    \/ ConfirmAct
    \/ CancelAct
    \/ MenuEditEdgesAct
    \/ MenuDeleteAct
    \/ ModalSaveAct
    \/ ModalCancelAct

Spec == Init /\ [][Next]_vars


(***************************************************************************)
(* The geometry kernel on its own: the seed shapes onDrawUp builds and     *)
(* centroid, on inputs drawn from bounded sets.                            *)
(***************************************************************************)

\* Where the draws start: inside the image.
GeoStarts == {Pt(10, 10), Pt(40, 40), Pt(40, 10), Pt(10, 40), Pt(0, 100)}

\* Where they end: the same corners, a point too close, a point off the
\* percent grid and a point outside the image.
GeoEnds ==
    {Pt(10, 10), Pt(40, 40), Pt(40, 10), Pt(10, 40), Pt(11, 11),
     <<Pct(10) + Unit \div 2, Pct(70) + Unit \div 4>>, OutsidePt}

\* The coordinates of the vertex lists handed to centroid and to
\* smoothClosedPath.
GeoCoords == {Pt(0, 0), Pt(10, 20), Pt(100, 100), <<1, 2>>}

\* Longest vertex list handed to them.
MaxPoints == 3

\* Longer vertex lists: five vertices in no symmetry, and the eight control
\* points of a drawn ellipse.
LongLists ==
    {<<Pt(0, 0), Pt(10, 20), Pt(100, 100), <<1, 2>>, Pt(30, 70)>>,
     EllipsePoints(Pt(10, 10), Pt(40, 30))}

GeoLists ==
    UNION {[1..n -> GeoCoords] : n \in 0..MaxPoints} \cup LongLists

\* The view with edit mode on, tool armed and the button down at start.
Armed(tool, start) ==
    DrawDown(ToolClick(ToggleEditMode(Loaded(<< >>)), tool), start)

InitGeom ==
    \/ \E tool \in ShapeTools : \E start \in GeoStarts :
          StartsAs(Armed(tool, start)) /\ io = IoNone
    \/ \E points \in GeoLists :
          StartsAs(Loaded(<< >>)) /\ io = [op |-> "points", points |-> points]

\* The button is released at one of GeoEnds.
GeoDrawUpAct == DrawUpAt(GeoEnds, DrawTicks)

\* centroid is applied to the vertex list (the label of a shape, line 601).
CentroidAct ==
    /\ io.op = "points"
    /\ io' = [op |-> "centroid", points |-> io.points,
              result |-> Centroid(io.points)]
    /\ ev' = "centroid"
    /\ UNCHANGED <<profiles, activeProfileId, saved, isEditMode,
                   selectedHotspotId, drawingShapeType, editingEdgesHotspotId,
                   undoStack, dom, draw, drag, keyHandlers, modals, profileModals,
                   notice, now, legacy, migrations, gestures, hist>>

\* smoothClosedPath is applied to the vertex list (the outline of an
\* ellipse hotspot, lines 532, 648, 731).
SmoothPathAct ==
    /\ io.op = "points"
    /\ io' = [op |-> "path", points |-> io.points,
              result |-> SmoothClosedPath(io.points)]
    /\ ev' = "path"
    /\ UNCHANGED <<profiles, activeProfileId, saved, isEditMode,
                   selectedHotspotId, drawingShapeType, editingEdgesHotspotId,
                   undoStack, dom, draw, drag, keyHandlers, modals, profileModals,
                   notice, now, legacy, migrations, gestures, hist>>

NextGeom == GeoDrawUpAct \/ CentroidAct \/ SmoothPathAct

SpecGeom == InitGeom /\ [][NextGeom]_vars

(***************************************************************************)
(* Profiles: the selector of the view, the settings tab, and the load      *)
(***************************************************************************)

\* A profile as both creation paths make it: src/main.ts 868-873, 1258-1263.
NewProfile(id) == [id |-> id, hotspots |-> << >>]

\* profileSelect.onchange with a profile's option chosen: src/main.ts 229-238.
SelectProfile(st, val) ==
    RenderRoom(SaveSettings([st EXCEPT !.activeProfileId = val]))

\* createNewProfile() up to the modal on screen: src/main.ts 842-863.
CreateNewProfile(st) == [st EXCEPT !.profileModals = @ + 1]

\* saveBtn.onclick of the "Create New Profile" modal: src/main.ts 866-880.
CreateProfileSave(st, nameInput, id) ==
    IF nameInput = << >> THEN st
    ELSE RenderRoom(SaveSettings(
             [st EXCEPT !.profiles = Append(@, NewProfile(id)),
                        !.activeProfileId = id,
                        !.now = id,
                        !.profileModals = @ - 1]))

\* cancelBtn.onclick of that modal: src/main.ts 882.
CreateProfileCancel(st) == [st EXCEPT !.profileModals = @ - 1]

\* "Add New Profile" of the settings tab: src/main.ts 1256-1267.  The tab
\* is displayed again, the view is not rendered.
SettingsAddProfile(st, id) ==
    SaveSettings([st EXCEPT !.profiles = Append(@, NewProfile(id)),
                            !.activeProfileId = id,
                            !.now = id])

\* profiles.splice(index, 1) (src/main.ts 1296): a profile out of the list
\* keeps its array, and settings.hotspots with it if it is that array.
SpliceProfile(st, index) ==
    [st EXCEPT !.profiles = RemoveAt(@, index),
               !.legacy = IF /\ st.legacy.alias # NoId
                             /\ IndexOfId(st.profiles, st.legacy.alias) = index
                          THEN [alias |-> NoId, hotspots |-> st.profiles[index].hotspots]
                          ELSE @]

\* A Delete that leaves the active id as it is.
SettingsDeleteProfileNoFallback(st, index) ==
    SaveSettings(SpliceProfile(st, index))

\* "Delete" of the profile displayed at index (from one) in the settings
\* tab: src/main.ts 1295-1302.
SettingsDeleteProfile(st, index) ==
    LET profile == st.profiles[index]
        rest == RemoveAt(st.profiles, index)
        s1 == SpliceProfile(st, index)
    IN  SaveSettings(
            IF st.activeProfileId = profile.id
            THEN [s1 EXCEPT !.activeProfileId =
                                IF rest # << >> THEN rest[1].id ELSE NoId]
            ELSE s1)

\* A polygon hotspot as an earlier session drew and named it.
DrawnHotspot(id) ==
    [NewHotspot(id, RectPoints(Pt(10, 10), Pt(40, 40)), "rect") EXCEPT
        !.name = <<"n">>]

\* A hotspot record with neither vertices nor legacy rectangle fields.
BareHotspot(id) == [LegacyHotspot EXCEPT !.id = id, !.hasTop = FALSE]

\* A hotspot record with two vertices.
TwoPointHotspot(id) == NewHotspot(id, <<Pt(10, 10), Pt(40, 40)>>, "rect")

\* What the data file may hold: nothing, the hotspots of an old version
\* (sound, or one of them bare), or profiles (sound, or one hotspot with
\* two vertices).
DiskData ==
    {OldData(<< >>),
     OldData(<<LegacyHotspot>>),
     OldData(<<LegacyHotspot, BareHotspot(2)>>),
     [profiles |-> <<[id |-> DefaultProfileId, hotspots |-> <<DrawnHotspot(2)>>],
                     [id |-> 3, hotspots |-> <<LegacyHotspot>>]>>,
      activeProfileId |-> DefaultProfileId, hotspots |-> << >>],
     [profiles |-> <<[id |-> DefaultProfileId,
                      hotspots |-> <<TwoPointHotspot(2)>>]>>,
      activeProfileId |-> DefaultProfileId, hotspots |-> << >>]}

\* Timestamps handed out to profiles: the clock stops at MaxStoreNow.
MaxStoreNow == 4

\* What is typed into the name field of the "Create New Profile" modal.
ProfileNameInputs == {<< >>, <<"n">>}

\* The view has rendered at least once.
ViewOpen == dom # NoDom

\* Obsidian enables the plugin: onload reads the data file.
LoadAct ==
    /\ ev = "boot"
    /\ Becomes(OnLoad(St, io.data))
    /\ ev' = "load"
    /\ io' = [op |-> "loaded", data |-> io.data]
    /\ UNCHANGED <<gestures, hist>>

\* The user opens the view.
OpenAct ==
    /\ ev # "boot"
    /\ ~ViewOpen
    /\ Becomes(OnOpen(St))
    /\ ev' = "open"
    /\ io' = IoNone
    /\ UNCHANGED <<gestures, hist>>

\* Another profile is chosen in the selector of the view.
SelectProfileAct ==
    /\ ViewOpen
    /\ dom.select.on
    /\ \E k \in 1..Len(dom.select.options) :
          /\ dom.select.options[k] # dom.select.selected
          /\ LET new == SelectProfile(St, dom.select.options[k])
             IN  Becomes(new) /\ hist' = HistKeep(new, hist)
    /\ ev' = "select"
    /\ io' = IoNone
    /\ UNCHANGED gestures

\* "Add New Profile..." is chosen in the selector, or "Create First
\* Profile" is clicked where no profile is shown (src/main.ts 243-249).
CreateNewProfileAct ==
    /\ ViewOpen
    /\ \/ dom.select.on /\ dom.select.selected # NoId
       \/ dom.profile = NoId
    /\ profileModals < MaxModals
    /\ Becomes(CreateNewProfile(St))
    /\ ev' = "newProfile"
    /\ io' = IoNone
    /\ UNCHANGED <<gestures, hist>>

\* "Create Profile" is clicked in an open modal.
CreateProfileSaveAct ==
    /\ profileModals > 0
    /\ now < MaxStoreNow
    /\ \E n \in ProfileNameInputs : \E t \in DateNow(St, DrawTicks) :
          LET new == CreateProfileSave(St, n, t)
          IN  Becomes(new) /\ hist' = HistKeep(new, hist)
    /\ ev' = "createProfile"
    /\ io' = IoNone
    /\ UNCHANGED gestures

\* "Cancel" is clicked in an open modal.
CreateProfileCancelAct ==
    /\ profileModals > 0
    /\ Becomes(CreateProfileCancel(St))
    /\ ev' = "cancelProfile"
    /\ io' = IoNone
    /\ UNCHANGED <<gestures, hist>>

\* The settings tab is opened and "Add New Profile" clicked.
SettingsAddProfileAct ==
    /\ ev # "boot"
    /\ now < MaxStoreNow
    /\ \E t \in DateNow(St, DrawTicks) : Becomes(SettingsAddProfile(St, t))
    /\ ev' = "settingsAdd"
    /\ io' = IoNone
    /\ UNCHANGED <<gestures, hist>>

\* The settings tab is opened and the "Delete" of a profile clicked.
SettingsDeleteProfileAct ==
    /\ ev # "boot"
    /\ \E index \in 1..Len(profiles) :
          /\ Becomes(SettingsDeleteProfile(St, index))
          /\ io' = [op |-> "deleteProfile", id |-> profiles[index].id,
                    was |-> profiles, active |-> activeProfileId]
    /\ ev' = "settingsDelete"
    /\ UNCHANGED <<gestures, hist>>

InitStore ==
    \E data \in DiskData :
        /\ Holds(Constructed(data))
        /\ gestures = 0
        /\ ev = "boot"
        /\ hist = HistIdle
        /\ io = [op |-> "disk", data |-> data]

NextStore ==
    \/ LoadAct
    \/ OpenAct
    \/ SelectProfileAct
    \/ CreateNewProfileAct
    \/ CreateProfileSaveAct
    \/ CreateProfileCancelAct
    \/ SettingsAddProfileAct
    \/ SettingsDeleteProfileAct
    \/ ViewOpen /\ ToggleEditModeAct
    \/ ViewOpen /\ RenderAct
    \/ ViewOpen /\ MenuEditEdgesAct
    \/ ViewOpen /\ CancelAct

SpecStore == InitStore /\ [][NextStore]_vars

(***************************************************************************)
(* Hotspot ids: draws and deletions under a clock that may not advance     *)
(***************************************************************************)

\* Date.now() is the wall clock: between two draws it has advanced, or it
\* reads what it read at the last id (it was set back in between).
WallClockTicks == {0, 1}

\* Shapes in the store at once, and the last timestamp, in a run of
\* SpecIds.
MaxShapes == 2

MaxIdNow == 3

IdDrawDownAct ==
    DrawDownWhile(/\ Len(HotspotsOf(St, dom.profile)) < MaxShapes
                  /\ now < MaxIdNow)

IdDrawUpAct == DrawUpAt({Pt(40, 40)}, WallClockTicks)

NextIds ==
    \/ ToggleEditModeAct
    \/ ToolClickAct
    \/ RenderAct
    \/ IdDrawDownAct
    \/ IdDrawUpAct
    \/ KeyEscapeAct
    \/ ConfirmAct
    \/ CancelAct
    \/ MenuEditEdgesAct
    \/ MenuDeleteAct
    \/ ModalSaveAct
    \/ ModalCancelAct

SpecIds == Init /\ [][NextIds]_vars

(***************************************************************************)
(* Navigation: a click on a hotspot in view mode (src/main.ts 818-823,     *)
(* 885-1095)                                                               *)
(***************************************************************************)

Hash == "#"

Md == <<".", "m", "d">>

\* String.prototype.includes(c) for a one-character c.
Includes(s, c) == \E i \in 1..Len(s) : s[i] = c

RECURSIVE UpTo(_, _)
\* s.split(c)[0]: the part of s before the first c.
UpTo(s, c) ==
    IF s = << >> \/ Head(s) = c THEN << >>
    ELSE <<Head(s)>> \o UpTo(Tail(s), c)

\* s.split(c)[1] where s includes c: between the first c and the next.
AfterFirst(s, c) == UpTo(SubSeq(s, Len(UpTo(s, c)) + 2, Len(s)), c)

\* String.prototype.endsWith(suffix)
EndsWith(s, suffix) ==
    /\ Len(s) >= Len(suffix)
    /\ SubSeq(s, Len(s) - Len(suffix) + 1, Len(s)) = suffix

\* null of getAbstractFileByPath.
NoFile == [path |-> << >>, kind |-> "none", children |-> 0]

\* app.vault.getAbstractFileByPath(path); a vault is a set of files and
\* folders with distinct paths.
GetAbstractFileByPath(vault, path) ==
    IF \E f \in vault : f.path = path
    THEN CHOOSE f \in vault : f.path = path
    ELSE NoFile

\* showZoneFiles from the path resolution on (src/main.ts 893-1095), for a
\* click on the shape (currentPath is null).  st is the view afterwards,
\* lookups the paths handed to getAbstractFileByPath in order, opened the
\* file given to leaf.openFile (NoFile: none), subpath the heading it
\* scrolls to.
ResolveZone(st, vault, hotspot) ==
    LET raw == hotspot.path
        path == IF Includes(raw, Hash) THEN UpTo(raw, Hash) ELSE raw
        linkSubpath == IF Includes(raw, Hash)
                       THEN <<Hash>> \o AfterFirst(raw, Hash) ELSE << >>
        first == GetAbstractFileByPath(vault, path)
        tryMd == first.kind = "none" /\ ~EndsWith(path, Md)
        tryFile == GetAbstractFileByPath(vault, path \o Md)
        abstractFile == IF tryMd /\ tryFile.kind # "none" THEN tryFile ELSE first
        resolving == <<path>> \o (IF tryMd THEN <<path \o Md>> ELSE << >>)
        folder == GetAbstractFileByPath(vault, path)
        list == IF folder.kind # "folder" THEN "notFound"
                ELSE IF folder.children = 0 THEN "empty"
                ELSE "files"
    IN  IF abstractFile.kind = "file"
        THEN [st |-> st, lookups |-> resolving, opened |-> abstractFile,
              subpath |-> linkSubpath]
        ELSE [st |-> [st EXCEPT !.dom.panel =
                         [shown |-> TRUE, title |-> hotspot.name, list |-> list]],
              lookups |-> resolving \o <<path>>, opened |-> NoFile,
              subpath |-> << >>]

\* What showZoneFiles does for a hotspot without a destination: src/main.ts
\* 888-891.
NoLinkedFolder(st) == Notice(st, "Region has no linked folder. Edit it to set a path.")

\* A showZoneFiles that resolves the path before it tests it for emptiness.
ShowZoneFilesResolveFirst(st, vault, hotspot) ==
    IF Trim(hotspot.path) = << >>
    THEN [ResolveZone(st, vault, hotspot) EXCEPT !.st = NoLinkedFolder(st)]
    ELSE ResolveZone(st, vault, hotspot)

\* showZoneFiles(hotspot): src/main.ts 885-1095.
ShowZoneFiles(st, vault, hotspot) ==
    IF Trim(hotspot.path) = << >>
    THEN [st |-> NoLinkedFolder(st), lookups |-> << >>, opened |-> NoFile,
          subpath |-> << >>]
    ELSE ResolveZone(st, vault, hotspot)

Old == <<"o", "l", "d">>

OldHeading == Old \o <<Hash, "h">>

\* What the vault may hold when a hotspot is clicked.
VaultEntries ==
    {[path |-> Old, kind |-> "folder", children |-> 0],
     [path |-> Old \o Md, kind |-> "file", children |-> 0],
     [path |-> NotesDesk, kind |-> "folder", children |-> 1]}

Vaults == SUBSET VaultEntries

\* What is typed into the path field of the naming modal.
NavPathInputs == {<< >>, NotesDesk, OldHeading}

\* A click on a shape that has the view-mode click handler.
ShowZoneFilesAct ==
    /\ MouseFree
    /\ \E hid \in DomIds : \E vault \in Vaults :
          /\ DomHas(St, hid, "view")
          /\ HasHotspot(St, dom.profile, hid)
          /\ LET h == HotspotOf(St, dom.profile, hid)
                 r == ShowZoneFiles(St, vault, h)
             IN  /\ Becomes(r.st)
                 /\ io' = [op |-> "navigate", hotspot |-> h, vault |-> vault,
                           lookups |-> r.lookups, opened |-> r.opened,
                           subpath |-> r.subpath]
    /\ ev' = "navigate"
    /\ UNCHANGED <<gestures, hist>>

NavModalSaveAct == ModalSaveWith({Desk}, NavPathInputs)

NextNav ==
    \/ ToggleEditModeAct
    \/ ToolClickAct
    \/ RenderAct
    \/ DrawDownAct
    \/ DrawUpAct
    \/ ConfirmAct
    \/ MenuEditEdgesAct
    \/ NavModalSaveAct
    \/ ShowZoneFilesAct

SpecNav == Init /\ [][NextNav]_vars

(***************************************************************************)
(* Rendering of persisted hotspots of every form                           *)
(***************************************************************************)

\* The forms a persisted hotspot may have: vertices, vertices of an ellipse,
\* a legacy rectangle, neither, vertices and a legacy rectangle, an empty
\* vertex list and a legacy rectangle.
HotspotForms(id) ==
    {DrawnHotspot(id),
     [DrawnHotspot(id) EXCEPT !.shapeType = "ellipse"],
     [LegacyHotspot EXCEPT !.id = id],
     BareHotspot(id),
     [DrawnHotspot(id) EXCEPT !.hasTop = TRUE],
     [LegacyHotspot EXCEPT !.id = id, !.hasPoints = TRUE]}

\* The hotspot lists of the data file, of at most two hotspots.
RenderLists ==
    {<< >>} \cup {<<a>> : a \in HotspotForms(1)}
            \cup {<<a, b>> : a \in HotspotForms(1), b \in HotspotForms(2)}

InitRender ==
    /\ \E hs \in RenderLists : StartsAs(Loaded(hs))
    /\ io = IoNone

NextRender ==
    \/ ToggleEditModeAct
    \/ RenderAct
    \/ MenuEditEdgesAct
    \/ MenuDeleteAct

SpecRender == InitRender /\ [][NextRender]_vars

(***************************************************************************)
(* Labels (src/main.ts 601-604)                                            *)
(***************************************************************************)

\* "(unnamed)", "(no path)" and "?" as character sequences.
Unnamed == <<"(", "u", "n", "n", "a", "m", "e", "d", ")">>

NoPath == <<"(", "n", "o", Space, "p", "a", "t", "h", ")">>

Unknown == <<"?">>

\* a || b on strings: a unless it is empty.
OrElse(a, b) == IF a # << >> THEN a ELSE b

\* A label that shows the field as it is.
LabelTextAsIs(displayLabelType, h) ==
    IF displayLabelType = "both"
    THEN h.name \o <<Space, "(">> \o h.path \o <<")">>
    ELSE IF displayLabelType = "path" THEN h.path
    ELSE h.name

\* labelText: src/main.ts 601-603.
LabelText(displayLabelType, h) ==
    IF displayLabelType = "both"
    THEN OrElse(h.name, Unknown) \o <<Space, "(">> \o OrElse(h.path, Unknown) \o <<")">>
    ELSE IF displayLabelType = "path" THEN OrElse(h.path, NoPath)
    ELSE OrElse(h.name, Unnamed)

\* The label texts of the hotspots hs that are drawn, in render order.
Labels(displayLabelType, hs) ==
    LET shown == SelectSeq(hs, Renderable)
    IN  [i \in 1..Len(shown) |-> [hotspot |-> shown[i],
                                  text |-> LabelText(displayLabelType, shown[i])]]

\* settings.displayLabelType as the data file or the settings tab set it
\* (src/main.ts 39, 1241-1243); "" stands for any other value of the file.
DisplayLabelTypes == {"name", "path", "both", ""}

\* Names and destinations of persisted hotspots.
LabelNames == {<< >>, <<Space>>, Desk}

LabelPaths == {<< >>, NotesDesk}

LabelHotspots(id) ==
    {[DrawnHotspot(id) EXCEPT !.name = n, !.path = q] :
        n \in LabelNames, q \in LabelPaths}

LabelLists ==
    {<< >>} \cup {<<a>> : a \in LabelHotspots(1)}
            \cup {<<a, b>> : a \in LabelHotspots(1), b \in LabelHotspots(2)}

InitLabel ==
    /\ \E hs \in LabelLists : StartsAs(Loaded(hs))
    /\ io = IoNone

\* renderRoom under a display-style setting.
RenderLabelsAct ==
    /\ \E d \in DisplayLabelTypes :
          LET new == RenderRoom(St)
          IN  /\ Becomes(new)
              /\ io' = [op |-> "labels", display |-> d,
                        labels |-> Labels(d, HotspotsOf(new, new.dom.profile))]
    /\ ev' = "labels"
    /\ UNCHANGED <<gestures, hist>>

NextLabel ==
    \/ ToggleEditModeAct
    \/ RenderLabelsAct

SpecLabel == InitLabel /\ [][NextLabel]_vars

(***************************************************************************)
(* Startups: the plugin is loaded again from what it saved                 *)
(***************************************************************************)

\* How often the plugin starts again in a run.
MaxStarts == 3

\* The plugin as constructed at a later startup: the data file is what was
\* saved, the clock has not gone back.
Restarted(st) ==
    [Constructed(st.saved) EXCEPT !.now = st.now, !.migrations = st.migrations]

\* Obsidian is restarted (or the plugin disabled and enabled): the view is
\* gone, onload runs on the saved data.
RestartAct ==
    /\ ev # "boot"
    /\ gestures < MaxStarts
    /\ Becomes(OnLoad(Restarted(St), saved))
    /\ ev' = "restart"
    /\ io' = [op |-> "loaded", data |-> saved]
    /\ gestures' = gestures + 1
    /\ hist' = HistIdle

NextMigrate ==
    \/ LoadAct
    \/ RestartAct
    \/ OpenAct
    \/ SettingsAddProfileAct
    \/ SettingsDeleteProfileAct
    \/ ViewOpen /\ ToggleEditModeAct
    \/ ViewOpen /\ MenuDeleteAct

SpecMigrate == InitStore /\ [][NextMigrate]_vars

(***************************************************************************)
(* Properties of the seed shapes and of centroid, under SpecGeom           *)
(***************************************************************************)

\* The hotspots of the only profile.
Hotspots == profiles[1].hotspots

\* The pointer position of the release, brought into the image.
DrawnEnd ==
    <<Max2(0, Min2(Pct(100), io.cur[1])), Max2(0, Min2(Pct(100), io.cur[2]))>>

DrawnMinX == Min2(io.start[1], DrawnEnd[1])

DrawnMaxX == Max2(io.start[1], DrawnEnd[1])

DrawnMinY == Min2(io.start[2], DrawnEnd[2])

DrawnMaxY == Max2(io.start[2], DrawnEnd[2])

\* The last event was the release of a draw with this tool whose drag
\* rectangle is not an accidental click.
CommittedDraw(tool) ==
    /\ io.op = "draw"
    /\ io.tool = tool
    /\ (DrawnMaxX - DrawnMinX >= Pct(2) \/ DrawnMaxY - DrawnMinY >= Pct(2))

\* The draw added a hotspot at the end of the list and is editing it.
DrawnAdded ==
    /\ Hotspots # << >>
    /\ Hotspots[Len(Hotspots)].id = editingEdgesHotspotId
    /\ Hotspots[Len(Hotspots)].hasPoints

\* The vertex list of the hotspot the draw added.
DrawnPoints == Hotspots[Len(Hotspots)].points

\* C7: a committed rectangle draw seeds exactly (minX,minY), (maxX,minY),
\* (maxX,maxY), (minX,maxY) in this order, min and max taken over the start
\* and end of the drag; the same drag with start and end swapped, or along
\* the other diagonal of the same corners, seeds the identical list.
RectSeedNormalized ==
    CommittedDraw("rect") =>
        /\ DrawnAdded
        /\ DrawnPoints = << <<DrawnMinX, DrawnMinY>>, <<DrawnMaxX, DrawnMinY>>,
                            <<DrawnMaxX, DrawnMaxY>>, <<DrawnMinX, DrawnMaxY>> >>
        /\ RectPoints(DrawnEnd, io.start) = DrawnPoints
        /\ RectPoints(<<io.start[1], DrawnEnd[2]>>, <<DrawnEnd[1], io.start[2]>>)
             = DrawnPoints

\* A rectangle dragged from its bottom-right to its top-left corner.
RectSeedReached ==
    /\ CommittedDraw("rect")
    /\ io.start = Pt(40, 40)
    /\ io.cur = Pt(10, 10)
    /\ DrawnAdded
    /\ DrawnPoints[1] = Pt(10, 10)
    /\ DrawnPoints[3] = Pt(40, 40)

\* floor(a * num / den) for 0 <= a, den < 2^15, without leaving 32 bits.
FloorMulDiv(a, num, den) ==
    (a \div den) * num + ((a % den) * num) \div den

\* Bounds of 4 * a * cos(pi/4), for 2a given: 13860/19601 is below and
\* 5741/8119 above sqrt(2)/2.
QuarterLow(a2) == FloorMulDiv(2 * a2, 13860, 19601)

QuarterHigh(a2) == FloorMulDiv(2 * a2, 5741, 8119) + 1

\* Bounds <<low, high>> of 4 * a * cos(2 pi i / 8), for 2a given.
CosBounds(a2, i) ==
    CASE i = 0 -> <<2 * a2, 2 * a2>>
      [] i \in {1, 7} -> <<QuarterLow(a2), QuarterHigh(a2)>>
      [] i \in {2, 6} -> <<0, 0>>
      [] i \in {3, 5} -> <<-QuarterHigh(a2), -QuarterLow(a2)>>
      [] OTHER -> <<-(2 * a2), -(2 * a2)>>

\* Bounds <<low, high>> of 4 * a * sin(2 pi i / 8), for 2a given.
SinBounds(a2, i) ==
    CASE i \in {0, 4} -> <<0, 0>>
      [] i \in {1, 3} -> <<QuarterLow(a2), QuarterHigh(a2)>>
      [] i = 2 -> <<2 * a2, 2 * a2>>
      [] i \in {5, 7} -> <<-QuarterHigh(a2), -QuarterLow(a2)>>
      [] OTHER -> <<-(2 * a2), -(2 * a2)>>

\* v4 / 4 is within one unit (1e-6 of a percentage point) of every value
\* between the bounds b / 4.
WithinTolerance(v4, b) == v4 >= b[2] - 4 /\ v4 <= b[1] + 4

\* C8: a committed ellipse draw seeds exactly 8 vertices, vertex i within
\* 1e-6 of (cx + rx cos(2 pi i / 8), cy + ry sin(2 pi i / 8)), (cx, cy) the
\* centre of the drag rectangle and rx, ry its half extents.
EllipseSeedOnEllipse ==
    CommittedDraw("ellipse") =>
        /\ DrawnAdded
        /\ Len(DrawnPoints) = 8
        /\ \A i \in 0..7 :
              /\ WithinTolerance(4 * DrawnPoints[i + 1][1] - 2 * (DrawnMinX + DrawnMaxX),
                                 CosBounds(DrawnMaxX - DrawnMinX, i))
              /\ WithinTolerance(4 * DrawnPoints[i + 1][2] - 2 * (DrawnMinY + DrawnMaxY),
                                 SinBounds(DrawnMaxY - DrawnMinY, i))

\* An ellipse drawn from (10,10) to (40,40): its second vertex lies at 45
\* degrees, 15 * cos(pi/4) = 10.606602 from the centre (25,25).
EllipseSeedReached ==
    /\ CommittedDraw("ellipse")
    /\ io.start = Pt(10, 10)
    /\ io.cur = Pt(40, 40)
    /\ DrawnAdded
    /\ DrawnPoints[1] = Pt(40, 25)
    /\ DrawnPoints[2] = <<35606602, 35606602>>

\* C9: a committed triangle draw seeds exactly top-centre (minX + w/2, minY),
\* bottom-left (minX, maxY), bottom-right (maxX, maxY) of the normalized drag
\* rectangle, whichever way the drag went.
TriangleSeedCorners ==
    CommittedDraw("triangle") =>
        /\ DrawnAdded
        /\ Len(DrawnPoints) = 3
        /\ 2 * DrawnPoints[1][1] = DrawnMinX + DrawnMaxX
        /\ DrawnPoints[1][2] = DrawnMinY
        /\ DrawnPoints[2] = <<DrawnMinX, DrawnMaxY>>
        /\ DrawnPoints[3] = <<DrawnMaxX, DrawnMaxY>>
        /\ TrianglePoints(DrawnEnd, io.start) = DrawnPoints
        /\ TrianglePoints(<<io.start[1], DrawnEnd[2]>>, <<DrawnEnd[1], io.start[2]>>)
             = DrawnPoints

\* A triangle dragged from the bottom-right to the top-left corner.
TriangleSeedReached ==
    /\ CommittedDraw("triangle")
    /\ io.start = Pt(40, 40)
    /\ io.cur = Pt(10, 10)
    /\ DrawnAdded
    /\ DrawnPoints = <<Pt(25, 10), Pt(10, 40), Pt(40, 40)>>

\* C10: centroid of a non-empty vertex list is the componentwise mean, to
\* the nearest unit and exactly where the sum divides (n * result = sum);
\* centroid of the empty list is (50,50).
CentroidIsMean ==
    io.op = "centroid" =>
        LET n == Len(io.points)
            sx == SumCoord(io.points, 1)
            sy == SumCoord(io.points, 2)
        IN  IF n = 0 THEN io.result = Pt(50, 50)
            ELSE /\ 2 * Abs(n * io.result[1] - sx) <= n
                 /\ 2 * Abs(n * io.result[2] - sy) <= n
                 /\ (sx % n = 0 => n * io.result[1] = sx)
                 /\ (sy % n = 0 => n * io.result[2] = sy)

\* centroid of (0,0), (10,20), (100,100) is (36.666667, 40).
CentroidReached ==
    /\ io.op = "centroid"
    /\ io.points = <<Pt(0, 0), Pt(10, 20), Pt(100, 100)>>
    /\ io.result = <<36666667, Pct(40)>>

\* centroid of no vertices has been taken.
CentroidEmptyReached ==
    /\ io.op = "centroid"
    /\ io.points = << >>
    /\ io.result = Pt(50, 50)

(***************************************************************************)
(* Properties of the editor, under Spec                                    *)
(***************************************************************************)

\* A hotspot is in Edge-Editing.
EdgeEditing == editingEdgesHotspotId # NoId

\* The hotspot in Edge-Editing is in the store.
EditedExists == \E i \in 1..Len(Hotspots) : Hotspots[i].id = editingEdgesHotspotId

\* The vertex list of the hotspot in Edge-Editing.
EditedPoints == HotspotOf(St, DefaultProfileId, editingEdgesHotspotId).points

\* The hotspot list without the hotspot id.
Without(hs, id) ==
    LET Other(h) == h.id # id
    IN  SelectSeq(hs, Other)

\* C1: in Edge-Editing, after one or more completed vertex or whole-shape
\* drags of the edited hotspot, a single Ctrl+Z sets its vertex list to the
\* list it had immediately before the most recent of those drags began.
UndoRestoresLastGestureStart ==
    [][(/\ ev' = "undo"
        /\ EdgeEditing
        /\ EditedExists
        /\ hist.vdrags + hist.sdrags >= 1
        /\ ~hist.undone
        /\ drag.kind = "none")
       => (EditedExists' /\ EditedPoints' = hist.pre)]_vars

\* One Ctrl+Z after two vertex drags has put the shape back to its creation
\* snapshot, not to the vertices the second drag started from.
UndoSkippedDragReached ==
    /\ ev = "undo"
    /\ EdgeEditing
    /\ EditedExists
    /\ hist.fresh
    /\ hist.vdrags = 2
    /\ hist.sdrags = 0
    /\ Len(undoStack) = 2
    /\ EditedPoints = hist.entry
    /\ EditedPoints # hist.pre

\* C2: from a freshly drawn hotspot that has just entered Edge-Editing, after
\* N vertex drags and no undo the undo stack holds exactly N + 1 snapshots,
\* the bottom one being the creation snapshot.
UndoStackCountsDrags ==
    (/\ EdgeEditing
     /\ hist.fresh
     /\ ~hist.undone
     /\ hist.sdrags = 0)
    => /\ Len(undoStack) = hist.vdrags + 1
       /\ undoStack[1] = hist.entry

\* Two vertex drags of a freshly drawn shape have been completed.
TwoDragsReached ==
    /\ EdgeEditing
    /\ hist.fresh
    /\ ~hist.undone
    /\ hist.sdrags = 0
    /\ hist.vdrags = 2
    /\ drag.kind = "none"
    /\ Len(undoStack) = 3
    /\ EditedPoints # hist.entry

\* C3: in Edge-Editing an undo never leaves the stack below one snapshot;
\* once only one snapshot is left the vertices equal the snapshot taken when
\* Edge-Editing was entered, and every further undo changes neither the
\* vertices nor the stack and is reported by the "Nothing to undo" notice.
UndoConvergesToEntry ==
    [][(/\ ev' = "undo"
        /\ EdgeEditing
        /\ drag.kind = "none")
       => /\ Len(undoStack') >= 1
          /\ (Len(undoStack') = 1 => EditedExists' /\ EditedPoints' = hist.entry)
          /\ (Len(undoStack) <= 1 =>
                /\ undoStack' = undoStack
                /\ profiles' = profiles
                /\ notice' = "Nothing to undo")]_vars

\* Ctrl+Z in Edge-Editing with an empty stack went by without any notice.
SilentUndoReached ==
    /\ ev = "undo"
    /\ EdgeEditing
    /\ undoStack = << >>
    /\ notice = ""

\* C4: whenever a hotspot is in Edge-Editing, Cancel or Escape removes
\* exactly that hotspot from the hotspot list, leaves every other hotspot
\* unchanged, ends Edge-Editing and empties the undo stack.
CancelRemovesEdited ==
    [][(/\ ev' \in {"escape", "cancel"}
        /\ EdgeEditing)
       => /\ Hotspots' = Without(Hotspots, editingEdgesHotspotId)
          /\ EditedExists
          /\ editingEdgesHotspotId' = NoId
          /\ undoStack' = << >>]_vars

\* Escape has been pressed in Edge-Editing and the hotspot is still edited.
EscapeIgnoredReached ==
    /\ ev = "escape"
    /\ EdgeEditing
    /\ EditedExists

\* The last event was the release of a draw whose drag rectangle is below
\* two percentage points in both extents.
DegenerateDraw ==
    /\ io.op = "draw"
    /\ DrawnMaxX - DrawnMinX < Pct(2)
    /\ DrawnMaxY - DrawnMinY < Pct(2)

\* C5: a draw whose drag rectangle has both width and height below 2 creates
\* no hotspot: the store (in memory and as saved), the selection and the undo
\* stack are unchanged, and the tool of the draw remains armed, on screen too,
\* with no draw in progress.
DegenerateDrawDiscarded ==
    [][DegenerateDraw'
       => /\ profiles' = profiles
          /\ activeProfileId' = activeProfileId
          /\ saved' = saved
          /\ selectedHotspotId' = selectedHotspotId
          /\ editingEdgesHotspotId' = editingEdgesHotspotId
          /\ undoStack' = undoStack
          /\ drawingShapeType' = drawingShapeType
          /\ drawingShapeType' = io'.tool
          /\ dom'.tool = io'.tool
          /\ ~draw'.dragging]_vars

\* A draw from (10,10) to (11,11) has been released with the tool still armed.
DegenerateDrawReached ==
    /\ DegenerateDraw
    /\ io.start = Pt(10, 10)
    /\ io.cur = Pt(11, 11)
    /\ drawingShapeType = io.tool
    /\ Hotspots = << >>

\* The rectangle the scenario draws.
DeskPoints == <<Pt(10, 10), Pt(40, 10), Pt(40, 40), Pt(10, 40)>>

\* The store holds exactly one hotspot, with the scenario's rectangle.
OnlyDeskShape(name, path) ==
    /\ Len(profiles) = 1
    /\ Len(Hotspots) = 1
    /\ Hotspots[1].points = DeskPoints
    /\ Hotspots[1].hasPoints
    /\ Hotspots[1].name = name
    /\ Hotspots[1].path = path

\* Releasing the rectangle draw from (10,10) at (40,40) over an empty store.
DeskDrawn ==
    (/\ Hotspots = << >>
     /\ io'.op = "draw"
     /\ io'.tool = "rect"
     /\ io'.start = Pt(10, 10)
     /\ io'.cur = Pt(40, 40))
    => /\ OnlyDeskShape(<< >>, << >>)'
       /\ editingEdgesHotspotId' = Hotspots'[1].id
       /\ DomHas(St, Hotspots[1].id, "edge")'

\* Pressing Confirm on the freshly drawn rectangle.
DeskConfirmed ==
    (/\ OnlyDeskShape(<< >>, << >>)
     /\ editingEdgesHotspotId = Hotspots[1].id
     /\ modals = << >>
     /\ ev' = "confirm")
    => /\ OnlyDeskShape(<< >>, << >>)'
       /\ editingEdgesHotspotId' = NoId
       /\ Len(modals') = 1
       /\ modals'[1].hotspot = Hotspots[1].id

\* Submitting the naming modal with "Desk" and "notes/desk".
DeskNamed ==
    (/\ OnlyDeskShape(<< >>, << >>)
     /\ editingEdgesHotspotId = NoId
     /\ Len(modals) = 1
     /\ modals[1].hotspot = Hotspots[1].id
     /\ io'.op = "name"
     /\ io'.name = Desk
     /\ io'.path = NotesDesk)
    => /\ OnlyDeskShape(Desk, NotesDesk)'
       /\ editingEdgesHotspotId' = NoId
       /\ drawingShapeType' = NoTool
       /\ dom'.tool = NoTool
       /\ modals' = << >>
       /\ saved' = StoreOf(St)'

\* C6: from one profile without hotspots, drawing a rectangle from (10,10)
\* to (40,40), pressing Confirm and submitting the naming modal with "Desk"
\* and "notes/desk" leaves exactly one hotspot with vertices (10,10), (40,10),
\* (40,40), (10,40), name "Desk" and destination "notes/desk", no hotspot in
\* Edge-Editing and no tool armed.
DeskScenario == [][DeskDrawn /\ DeskConfirmed /\ DeskNamed]_vars

\* The scenario has run to its end.
DeskReached ==
    /\ ev = "modalSave"
    /\ io.op = "name"
    /\ io.name = Desk
    /\ OnlyDeskShape(Desk, NotesDesk)
    /\ editingEdgesHotspotId = NoId
    /\ drawingShapeType = NoTool
    /\ modals = << >>
    /\ gestures = 0


(***************************************************************************)
(* The outline of an ellipse hotspot, under SpecGeom                       *)
(***************************************************************************)

\* The last event applied smoothClosedPath to a list of at least one vertex.
PathDrawn == io.op = "path" /\ Len(io.points) >= 1

\* The commands of the path that draw: all but the move and the close.
DrawnSegments == SubSeq(io.result, 2, Len(io.result) - 1)

\* The path starts with a move to the first vertex and ends with a close.
PathFramed ==
    /\ Len(io.result) >= 2
    /\ io.result[1] = MoveTo(io.points[1])
    /\ io.result[Len(io.result)] = ClosePath
    /\ \A k \in 1..Len(DrawnSegments) : DrawnSegments[k].op \in {"L", "C"}

\* C11 as stated: for any vertex list of length >= 1 the path starts with a
\* move to the first vertex, its last drawn segment ends at the first vertex
\* (or the path is a single point), and it ends with a close command.
PathClosedBySegment ==
    PathDrawn =>
        /\ PathFramed
        /\ \/ DrawnSegments = << >>
           \/ DrawnSegments[Len(DrawnSegments)].to = io.points[1]

\* C11, amended: for any vertex list of length >= 1 the path starts with a
\* move to the first vertex and ends with a close command; with three or
\* more vertices it has one curve per vertex, the k-th ending at the next
\* vertex and the last at the first vertex; with fewer than three it has a
\* straight line to each later vertex and only the close command returns to
\* the first vertex.
PathClosed ==
    PathDrawn =>
        LET n == Len(io.points)
            segs == DrawnSegments
        IN  /\ PathFramed
            /\ n >= 3 =>
                  /\ Len(segs) = n
                  /\ \A k \in 1..n : segs[k].op = "C" /\ segs[k].to = io.points[(k % n) + 1]
                  /\ segs[n].to = io.points[1]
            /\ n < 3 =>
                  /\ Len(segs) = n - 1
                  /\ \A k \in 1..(n - 1) : segs[k] = LineTo(io.points[k + 1])

\* A path through three distinct vertices has been produced.
CurvedPathReached ==
    /\ PathDrawn
    /\ Len(io.points) = 3
    /\ io.points[1] # io.points[2] /\ io.points[2] # io.points[3]
    /\ io.points[3] # io.points[1]

\* A path through two distinct vertices has been produced.
TwoPointPathReached ==
    /\ PathDrawn
    /\ Len(io.points) = 2
    /\ io.points[1] # io.points[2]

(***************************************************************************)
(* Store and editor invariants                                             *)
(***************************************************************************)

\* Every vertex of every hotspot of every profile.
AllVertices ==
    UNION { UNION { {profiles[i].hotspots[k].points[j] :
                        j \in 1..Len(profiles[i].hotspots[k].points)} :
                    k \in 1..Len(profiles[i].hotspots)} :
            i \in 1..Len(profiles)}

\* C15: in every reachable state every coordinate of every vertex of every
\* hotspot in the store lies in [0,100], after creation, vertex drags,
\* whole-shape drags and undo, wherever the pointer went.
VerticesInsideImage == \A p \in AllVertices : InsideImage(p)

\* A whole-shape drag has been released and the shape has vertices.
ShapeDragReleased ==
    /\ ev = "shapeUp"
    /\ EdgeEditing /\ EditedExists
    /\ hist.sdrags > 0
    /\ EditedPoints # hist.entry

\* C16: whenever no gesture is in progress, the last saved store equals the
\* store in memory: every transition that changes store data has saved.
SavedWhenIdle == MouseFree => saved = StoreOf(St)

\* An undo has changed the vertices of the edited hotspot.
UndoChangedStore ==
    /\ ev = "undo"
    /\ MouseFree
    /\ EdgeEditing /\ EditedExists
    /\ hist.vdrags + hist.sdrags > 0
    /\ profiles # saved.profiles

\* C17: the editor states exclude one another: no shape tool is armed while
\* a hotspot is in Edge-Editing, and at most one hotspot of the profile view
\* is shown with edge-editing controls at a time.
EditorStatesExclusive ==
    /\ ~(drawingShapeType # NoTool /\ EdgeEditing)
    /\ \A i, j \in 1..Len(dom.shapes) :
           dom.shapes[i].mode = "edge" /\ dom.shapes[j].mode = "edge" => i = j

\* A shape tool was clicked while a hotspot was in Edge-Editing.
ToolClickedWhileEditing ==
    /\ ev = "tool"
    /\ drawingShapeType # NoTool
    /\ EdgeEditing /\ EditedExists

\* The editor is in View: edit mode off, nothing armed, nothing edited, and
\* every shape on screen has the navigation click handler only.
InView ==
    /\ ~isEditMode
    /\ drawingShapeType = NoTool
    /\ editingEdgesHotspotId = NoId
    /\ ~dom.toolbar
    /\ \A i \in 1..Len(dom.shapes) : dom.shapes[i].mode = "view"

\* C14: a click on the edit-mode toggle while edit mode is on persists the
\* store and leaves the editor in View, from Edit-Idle, Drawing,
\* Edge-Editing and Naming alike.
ToggleOffLeadsToView ==
    [][isEditMode /\ ev' = "toggle" => (saved = StoreOf(St))' /\ InView']_vars

\* Edit mode has been switched off while a hotspot was in Edge-Editing.
ToggledOffWhileEditing ==
    /\ ev = "toggle"
    /\ ~isEditMode
    /\ EdgeEditing /\ EditedExists
    /\ DomHas(St, editingEdgesHotspotId, "edge")
    /\ saved = StoreOf(St)


(***************************************************************************)
(* Profiles and the load, under SpecStore                                  *)
(***************************************************************************)

\* The profile list without the profile id.
WithoutProfile(ps, id) ==
    LET Other(q) == q.id # id
    IN  SelectSeq(ps, Other)

\* C12: deleting the active profile makes the first remaining profile the
\* active one, or empties the active id when none remains; deleting another
\* profile leaves the active id unchanged.
DeleteProfileFallsBack ==
    [][ev' = "settingsDelete" =>
          /\ profiles' = WithoutProfile(profiles, io'.id)
          /\ activeProfileId = io'.id /\ profiles' # << >> =>
                 activeProfileId' = profiles'[1].id
          /\ activeProfileId = io'.id /\ profiles' = << >> =>
                 activeProfileId' = NoId
          /\ activeProfileId # io'.id => activeProfileId' = activeProfileId]_vars

\* The active one of two profiles has been deleted and the other promoted.
ActiveProfileDeleted ==
    /\ ev = "settingsDelete"
    /\ Len(io.was) = 2
    /\ io.active = io.id
    /\ Len(profiles) = 1
    /\ activeProfileId = profiles[1].id

\* C13: from the loaded store on, through profile creations, deletions,
\* switches and renders, the active profile id is empty or the id of a
\* profile of the list.
ActiveProfileExists ==
    ev # "boot" =>
        \/ activeProfileId = NoId
        \/ \E i \in 1..Len(profiles) : profiles[i].id = activeProfileId

\* An option of the selector was chosen whose profile had been deleted in
\* the settings tab since the view rendered; another profile remains.
StaleOptionChosen ==
    /\ ev = "select"
    /\ activeProfileId # NoId
    /\ profiles # << >>
    /\ IndexOfId(profiles, activeProfileId) = 0
    /\ dom.profile = NoId

\* C18: while edit mode is on, no user action changes the active profile
\* id.
ActiveProfileFixedWhileEditing ==
    [][isEditMode => activeProfileId' = activeProfileId]_vars

\* A profile was added in the settings tab while a hotspot was in
\* Edge-Editing.
ProfileAddedWhileEditing ==
    /\ ev = "settingsAdd"
    /\ isEditMode
    /\ EdgeEditing
    /\ dom.profile # NoId

\* A hotspot with at least three vertices or with legacy rectangle fields.
SoundHotspot(h) == (h.hasPoints /\ Len(h.points) >= 3) \/ h.hasTop

\* C19: after the load every hotspot of every profile has at least three
\* vertices or legacy rectangle fields.
NoCorruptHotspot ==
    ev # "boot" =>
        \A i \in 1..Len(profiles) : \A k \in 1..Len(profiles[i].hotspots) :
            SoundHotspot(profiles[i].hotspots[k])

\* A data file holding a hotspot with neither has been loaded.
CorruptFileLoaded ==
    /\ ev = "load"
    /\ io.op = "loaded"
    /\ \/ \E k \in 1..Len(io.data.hotspots) : ~SoundHotspot(io.data.hotspots[k])
       \/ \E i \in 1..Len(io.data.profiles) :
              \E k \in 1..Len(io.data.profiles[i].hotspots) :
                  ~SoundHotspot(io.data.profiles[i].hotspots[k])


(***************************************************************************)
(* Hotspot ids, under SpecIds                                              *)
(***************************************************************************)

\* The ids of the hotspot list hs.
IdsOf(hs) == {hs[k].id : k \in 1..Len(hs)}

\* C20: hotspot ids are unique and never reused: no two hotspots of a
\* profile share an id, and a draw gives the new hotspot an id that no
\* hotspot of the profile has.
HotspotIdsUnique ==
    /\ \A i \in 1..Len(profiles) :
           \A k, l \in 1..Len(profiles[i].hotspots) :
               profiles[i].hotspots[k].id = profiles[i].hotspots[l].id => k = l
    /\ ev = "drawUp" /\ io.op = "draw" /\ ~DegenerateDraw =>
           Hotspots[Len(Hotspots)].id \notin IdsOf(SubSeq(Hotspots, 1, Len(Hotspots) - 1))

\* A second shape has been drawn while the first is in the store.
SecondShapeDrawn ==
    /\ ev = "drawUp"
    /\ io.op = "draw"
    /\ Len(Hotspots) = 2
    /\ Hotspots[1].hasPoints /\ Hotspots[2].hasPoints


(***************************************************************************)
(* Transitions of the editor, under Spec                                   *)
(***************************************************************************)

\* The last hotspot of the list.
LastHotspot == Hotspots[Len(Hotspots)]

EditIdle ==
    /\ isEditMode
    /\ drawingShapeType = NoTool
    /\ editingEdgesHotspotId = NoId
    /\ modals = << >>

\* The label of hotspot hid is empty or only whitespace.
Unlabelled(hid) == Trim(HotspotOf(St, DefaultProfileId, hid).name) = << >>

\* C22: Confirm on the hotspot in Edge-Editing ends Edge-Editing and
\* empties the undo stack without changing the hotspot's vertices; with an
\* empty or blank label the editor goes to Naming for that hotspot,
\* otherwise the store is persisted and the editor is in Edit-Idle.
ConfirmEndsEditing ==
    [][(/\ ev' = "confirm"
        /\ io'.hotspot = editingEdgesHotspotId)
       => /\ editingEdgesHotspotId' = NoId
          /\ undoStack' = << >>
          /\ profiles' = profiles
          /\ Unlabelled(io'.hotspot) =>
                 /\ modals' = Append(modals, [hotspot |-> io'.hotspot,
                                              profile |-> DefaultProfileId])
          /\ ~Unlabelled(io'.hotspot) =>
                 /\ (saved = StoreOf(St))'
                 /\ EditIdle']_vars

\* Confirm was clicked on a labelled hotspot in Edge-Editing while a tool
\* was armed.
ConfirmedWithToolArmed ==
    /\ ev = "confirm"
    /\ io.op = "confirm"
    /\ ~Unlabelled(io.hotspot)
    /\ editingEdgesHotspotId = NoId
    /\ modals = << >>
    /\ saved = StoreOf(St)
    /\ isEditMode
    /\ drawingShapeType # NoTool


\* The naming modal of hotspot hid is open.
Naming(hid) == \E k \in 1..Len(modals) : modals[k].hotspot = hid

\* C23: in Naming, a submit with a non-blank label leaves the hotspot in its
\* profile with the trimmed label and destination, persists and returns to
\* Edit-Idle; a submit with a blank label changes nothing and stays in
\* Naming; a cancel removes the hotspot from its profile, persists and
\* returns to Edit-Idle.
NamingTransitions ==
    [][\A hid \in {modals[k].hotspot : k \in 1..Len(modals)} :
          /\ (ev' = "modalSave" /\ io'.hotspot = hid /\ Trim(io'.name) # << >>) =>
                /\ HasHotspot(St, DefaultProfileId, hid)'
                /\ HotspotOf(St, DefaultProfileId, hid)'.name = Trim(io'.name)
                /\ HotspotOf(St, DefaultProfileId, hid)'.path = Trim(io'.path)
                /\ (saved = StoreOf(St))'
                /\ ~Naming(hid)'
                /\ EditIdle'
          /\ (ev' = "modalSave" /\ io'.hotspot = hid /\ Trim(io'.name) = << >>) =>
                /\ profiles' = profiles
                /\ saved' = saved
                /\ modals' = modals
          /\ (ev' = "modalCancel" /\ io'.hotspot = hid) =>
                /\ Hotspots' = Without(Hotspots, hid)
                /\ ~HasHotspot(St, DefaultProfileId, hid)'
                /\ (saved = StoreOf(St))'
                /\ ~Naming(hid)'
                /\ EditIdle']_vars


\* A label was submitted for a hotspot that the cancel button of its
\* edge controls had removed while the modal was open.
NamedAfterRemoval ==
    /\ ev = "modalSave"
    /\ io.op = "name"
    /\ Trim(io.name) # << >>
    /\ isEditMode
    /\ modals = << >>
    /\ ~HasHotspot(St, DefaultProfileId, io.hotspot)
    /\ selectedHotspotId = io.hotspot


\* C24: a click on the button of the armed tool disarms it; a click on the
\* button of any other tool arms that tool; one tool at most is armed, on
\* screen as in the editor, and neither click changes the store, what is
\* saved of it, or the active profile.
ToolClickArmsOrDisarms ==
    [][ev' = "tool"
       => /\ drawingShapeType = io'.tool => drawingShapeType' = NoTool
          /\ drawingShapeType # io'.tool => drawingShapeType' = io'.tool
          /\ drawingShapeType' \in ShapeTools \cup {NoTool}
          /\ dom'.tool = drawingShapeType'
          /\ profiles' = profiles
          /\ activeProfileId' = activeProfileId
          /\ saved' = saved]_vars

\* The ellipse button was clicked while the rectangle tool was armed.
ToolSwitched ==
    /\ ev = "tool"
    /\ io.op = "tool"
    /\ io.tool = "ellipse"
    /\ drawingShapeType = "ellipse"
    /\ dom.tool = "ellipse"

\* The button of the armed tool was clicked.
ToolDisarmed ==
    /\ ev = "tool"
    /\ io.op = "tool"
    /\ drawingShapeType = NoTool
    /\ isEditMode


\* C25: while edit mode is off no input on the view changes a hotspot's
\* vertices, label or destination or adds or removes a hotspot, and every
\* hotspot on screen has the navigation click only.
ViewModeReadOnly ==
    [][~isEditMode
       => /\ profiles' = profiles
          /\ \A i \in 1..Len(dom.shapes) : dom.shapes[i].mode = "view"]_vars

\* A vertex of a hotspot was dragged and released with edit mode off.
VertexDraggedInView ==
    /\ ev = "handleUp"
    /\ ~isEditMode
    /\ EdgeEditing /\ EditedExists
    /\ hist.vdrags > 0
    /\ EditedPoints # hist.entry


(***************************************************************************)
(* Navigation, under SpecNav                                               *)
(***************************************************************************)

\* C26: a navigation click leaves the store and the editor state as they
\* were; for a hotspot with an empty destination it shows a notice and looks
\* no path up; for a destination that is neither a file nor a folder it
\* reports "not found", opens nothing and does nothing else.
NavigationReadOnly ==
    [][ev' = "navigate"
       => /\ profiles' = profiles /\ activeProfileId' = activeProfileId
          /\ saved' = saved
          /\ isEditMode' = isEditMode
          /\ selectedHotspotId' = selectedHotspotId
          /\ drawingShapeType' = drawingShapeType
          /\ editingEdgesHotspotId' = editingEdgesHotspotId
          /\ undoStack' = undoStack
          /\ draw' = draw /\ drag' = drag
          /\ keyHandlers' = keyHandlers /\ modals' = modals
          /\ dom'.shapes = dom.shapes /\ dom'.tool = dom.tool
          /\ Trim(io'.hotspot.path) = << >>
               => /\ notice' # ""
                  /\ io'.lookups = << >>
                  /\ io'.opened = NoFile
                  /\ dom'.panel = dom.panel
          /\ (/\ Trim(io'.hotspot.path) # << >>
              /\ \A i \in 1..Len(io'.lookups) :
                    GetAbstractFileByPath(io'.vault, io'.lookups[i]).kind = "none")
               => /\ dom'.panel.shown /\ dom'.panel.list = "notFound"
                  /\ io'.opened = NoFile]_vars

\* A hotspot whose destination is not in the vault was clicked.
MissingDestinationClicked ==
    /\ ev = "navigate"
    /\ io.hotspot.path = NotesDesk
    /\ io.vault = {}
    /\ dom.panel.list = "notFound"

\* A hotspot without a destination was clicked.
EmptyDestinationClicked ==
    /\ ev = "navigate"
    /\ io.hotspot.path = << >>
    /\ io.hotspot.name = Desk


(***************************************************************************)
(* Gestures, under Spec                                                    *)
(***************************************************************************)

\* A vertex or whole-shape drag is between press and release.
Dragging == drag.kind # "none"

\* C27: between the press and the release of a vertex or whole-shape drag
\* only the drag's own moves change the store or the undo stack, and at the
\* release the top of the undo stack is the vertex list the press found.
DragUninterrupted ==
    [][Dragging
       => /\ ev' \notin {"handleMove", "shapeMove", "handleUp", "shapeUp"}
               => profiles' = profiles /\ undoStack' = undoStack
          /\ ev' \in {"handleUp", "shapeUp"}
               => /\ undoStack' # << >>
                  /\ undoStack'[Len(undoStack')] = hist.pre]_vars

\* A drag was released after an undo during it had taken the drag's snapshot
\* off the stack.
ReleasedWithoutSnapshot ==
    /\ ev \in {"handleUp", "shapeUp"}
    /\ EdgeEditing /\ EditedExists
    /\ hist.undone
    /\ undoStack = << >> \/ undoStack[Len(undoStack)] # hist.pre


\* C28: one Ctrl+Z performs at most one undo step: the undo stack loses at
\* most one snapshot, however often the view was rendered before.
UndoPopsAtMostOne ==
    [][ev' = "undo" => Len(undoStack') >= Len(undoStack) - 1]_vars

\* One Ctrl+Z took two snapshots off the stack.
UndoPoppedTwice ==
    /\ ev = "undo"
    /\ EdgeEditing /\ EditedExists
    /\ Len(keyHandlers) > 1
    /\ io.depth - Len(undoStack) = 2
    /\ EditedPoints = hist.entry


\* The document has the onDrawMove/onDrawUp listeners of the last render:
\* renderRoom adds them when it builds the drawing layer for an armed tool
\* (src/main.ts 308, 484-485), and only a draw that is kept removes them
\* (462-464), which renders again with no tool armed.
DrawListening == dom.tool # NoTool

\* The document has the move/up listeners of a vertex or whole-shape drag:
\* added at the press, removed at the release (src/main.ts 661-668, 738-747).
DragListening == drag.kind # "none"

\* C29: while no pointer gesture is in progress the document has no draw or
\* drag move/release listener.
NoListenersWhenIdle == MouseFree => ~DrawListening /\ ~DragListening

\* A draw was discarded as too small and its listeners are still attached.
ListeningAfterDiscardedDraw ==
    /\ ev = "drawUp"
    /\ io.op = "draw"
    /\ DegenerateDraw
    /\ MouseFree
    /\ DrawListening


\* The place of the dragged handle's hotspot in the list (0: it is gone).
DraggedAt == IndexOfId(Hotspots, drag.hotspot)

\* C30: a vertex-handle drag changes only the vertex at the handle's index:
\* every move puts that vertex at the clamped pointer position and leaves the
\* hotspot's other vertices, their order and number, its other fields and
\* all other hotspots as they were; the release changes no hotspot.
VertexDragMovesOneVertex ==
    [][/\ ev' = "handleMove"
          => /\ Len(profiles') = Len(profiles)
             /\ Len(Hotspots') = Len(Hotspots)
             /\ \A j \in 1..Len(Hotspots) :
                   j # DraggedAt => Hotspots'[j] = Hotspots[j]
             /\ DraggedAt # 0
                  => LET old == Hotspots[DraggedAt]
                         new == Hotspots'[DraggedAt]
                     IN  /\ new = [old EXCEPT !.points = new.points]
                         /\ Len(new.points) = Len(old.points)
                         /\ \A i \in 1..Len(old.points) :
                               i # drag.idx => new.points[i] = old.points[i]
                         /\ new.points[drag.idx] = ClampPt(io'.p)
       /\ ev' = "handleUp" => profiles' = profiles]_vars

\* A vertex of the second hotspot was dragged past the image's edge and
\* stopped on it.
VertexDraggedToEdge ==
    /\ ev = "handleMove"
    /\ io.p = OutsidePt
    /\ Len(Hotspots) = 2
    /\ DraggedAt = 2
    /\ Hotspots[2].points[drag.idx] = ClampPt(OutsidePt)
    /\ Hotspots[2].points[drag.idx] # OutsidePt


(***************************************************************************)
(* Whole-shape drags, rendering and invariants of the editor               *)
(***************************************************************************)

\* C31: a whole-shape drag is a translation: the press records the vertices
\* and changes none, every move puts each vertex at its position at the
\* press plus the pointer's displacement since the press (so the differences
\* between vertices are kept, and the pointer back at the press position
\* gives the original list), and the release changes no vertex.
ShapeDragTranslates ==
    [][/\ ev' = "shapeDown"
          => /\ profiles' = profiles
             /\ IndexOfId(Hotspots, drag'.hotspot) # 0
             /\ drag'.orig = Hotspots[IndexOfId(Hotspots, drag'.hotspot)].points
       /\ (ev' = "shapeMove" /\ DraggedAt # 0)
          => LET new == Hotspots'[DraggedAt].points
                 dx == io'.p[1] - drag.start[1]
                 dy == io'.p[2] - drag.start[2]
             IN  /\ Len(new) = Len(drag.orig)
                 /\ \A i \in 1..Len(new) :
                       new[i] = <<drag.orig[i][1] + dx, drag.orig[i][2] + dy>>
                 /\ \A i, j \in 1..Len(new) :
                       /\ new[i][1] - new[j][1] = drag.orig[i][1] - drag.orig[j][1]
                       /\ new[i][2] - new[j][2] = drag.orig[i][2] - drag.orig[j][2]
                 /\ io'.p = drag.start => new = drag.orig
       /\ ev' = "shapeUp" => profiles' = profiles]_vars

\* The shape was dragged 70 points to the right of where it was pressed.
ShapeDraggedRight ==
    /\ ev = "shapeMove"
    /\ io.p = Pt(90, 20)
    /\ drag.start = ShapeGrab
    /\ DraggedAt # 0
    /\ Hotspots[DraggedAt].points = Translate(drag.orig, Pct(70), 0)
    /\ Hotspots[DraggedAt].points # drag.orig

\* A move with the pointer where it pressed the shape.
ShapeDraggedBack ==
    /\ ev = "shapeMove"
    /\ io.p = drag.start
    /\ DraggedAt # 0
    /\ Hotspots[DraggedAt].points = drag.orig
    /\ gestures = 1


\* What the rule of the claim draws a hotspot from.
DrawnFrom(h) ==
    IF h.hasPoints /\ h.points # << >> THEN "vertices"
    ELSE IF h.hasTop THEN "rectangle"
    ELSE "nothing"

\* The places of hotspot id among the shapes on screen.
ShapesOf(id) == {i \in 1..Len(dom.shapes) : dom.shapes[i].id = id}

\* C32: every hotspot of the profile is rendered by one rule: with a
\* non-empty vertex list it is drawn from the vertices, whatever legacy
\* rectangle fields it has; otherwise with a legacy top field it is drawn as
\* that rectangle; otherwise it has no shape on screen; the other hotspots
\* are rendered all the same, in the order of the list.
RenderClassifies ==
    /\ \A k \in 1..Len(Hotspots) :
          LET h == Hotspots[k]
          IN  /\ DrawnFrom(h) = "vertices"
                   => /\ Cardinality(ShapesOf(h.id)) = 1
                      /\ \A i \in ShapesOf(h.id) : dom.shapes[i].kind \in {"polygon", "path"}
              /\ DrawnFrom(h) = "rectangle"
                   => /\ Cardinality(ShapesOf(h.id)) = 1
                      /\ \A i \in ShapesOf(h.id) : dom.shapes[i].kind = "rect"
              /\ DrawnFrom(h) = "nothing" => ShapesOf(h.id) = {}
    /\ \A i \in 1..Len(dom.shapes) : IndexOfId(Hotspots, dom.shapes[i].id) # 0
    /\ \A i, j \in 1..Len(dom.shapes) :
          i < j => IndexOfId(Hotspots, dom.shapes[i].id)
                     < IndexOfId(Hotspots, dom.shapes[j].id)

\* A hotspot with neither vertices nor rectangle precedes one with both, and
\* only the second is on screen, drawn from its vertices.
SkippedThenDrawn ==
    /\ Len(Hotspots) = 2
    /\ DrawnFrom(Hotspots[1]) = "nothing"
    /\ Hotspots[2].hasTop /\ DrawnFrom(Hotspots[2]) = "vertices"
    /\ Len(dom.shapes) = 1
    /\ dom.shapes[1].id = Hotspots[2].id
    /\ dom.shapes[1].kind = "polygon"
    /\ ev = "render"


\* C33: the label of a hotspot follows from the display style alone: the
\* name for "name", the destination for "path", "name (destination)" for
\* "both", with a placeholder in the place of an empty field; the label is
\* never the empty string.
LabelFollowsDisplayStyle ==
    ev = "labels" =>
        \A i \in 1..Len(io.labels) :
            LET h == io.labels[i].hotspot
                text == io.labels[i].text
            IN  /\ text # << >>
                /\ (io.display = "name" /\ h.name # << >>) => text = h.name
                /\ (io.display = "name" /\ h.name = << >>) => text = Unnamed
                /\ (io.display = "path" /\ h.path # << >>) => text = h.path
                /\ (io.display = "path" /\ h.path = << >>) => text = NoPath
                /\ io.display = "both"
                     => \E n \in {h.name, Unknown} : \E q \in {h.path, Unknown} :
                           /\ n # << >> /\ q # << >>
                           /\ h.name # << >> => n = h.name
                           /\ h.path # << >> => q = h.path
                           /\ text = n \o <<Space, "(">> \o q \o <<")">>

\* A hotspot with a name and no destination was labelled in the "both" style.
LabelledWithPlaceholder ==
    /\ ev = "labels"
    /\ io.display = "both"
    /\ Len(io.labels) = 2
    /\ io.labels[2].hotspot.name = Desk
    /\ io.labels[2].hotspot.path = << >>
    /\ io.labels[2].text = Desk \o <<Space, "(", "?", ")">>


(***************************************************************************)
(* The migration, under SpecMigrate                                        *)
(***************************************************************************)

\* C34: onload synthesizes a default profile only when the store it loaded
\* has no profiles, and however the plugin is started, saved to and its
\* profiles added and deleted, the legacy hotspots are wrapped into a
\* synthesized profile at most once.
MigratesOnce ==
    [][/\ migrations' > migrations
          => /\ ev' \in {"load", "restart"}
             /\ io'.data.profiles = << >>
       /\ (ev' \in {"load", "restart"} /\ legacy'.alias # NoId)
          => migrations' <= 1]_vars

\* The legacy hotspots were wrapped into a default profile a second time,
\* at a startup after every profile had been deleted.
LegacyWrappedAgain ==
    /\ ev = "restart"
    /\ migrations = 2
    /\ legacy.alias = DefaultProfileId
    /\ Len(profiles) = 1
    /\ profiles[1].hotspots = <<LegacyHotspot>>
    /\ io.data.profiles = << >>
    /\ io.data.hotspots = <<LegacyHotspot>>


(***************************************************************************)
(* Drawing over shapes, and invariants of the editor, under Spec           *)
(***************************************************************************)

\* The events that are actions of a hotspot on screen: its menu items, its
\* drag, the drag of one of its handles.
HotspotActions == {"editEdges", "delete", "shapeDown", "handleDown"}

\* C35: while a shape tool is armed on screen, a press and release over a
\* hotspot's shape only draws: no action of the hotspot happens (no menu
\* item, no drag of the shape or of a handle).
ArmedToolOnlyDraws ==
    [][(isEditMode /\ dom.tool # NoTool) => ev' \notin HotspotActions]_vars

\* With the rectangle tool armed a click on a hotspot opened its menu, and
\* "Delete Region" removed it.
DeletedWhileArmed ==
    /\ ev = "delete"
    /\ isEditMode
    /\ drawingShapeType = "rect"
    /\ dom.tool = "rect"
    /\ Hotspots = << >>
    /\ ~EdgeEditing


(***************************************************************************)
(* The segments of smoothClosedPath, under SpecGeom                        *)
(***************************************************************************)

\* The vertex of the last path at index i counted from zero, cyclically.
Vertex(i) == io.points[((i + Len(io.points)) % Len(io.points)) + 1]

\* 0.35 * (a - b) on both coordinates, to the nearest unit.
Tensioned(a, b) == <<MulTension(a[1] - b[1]), MulTension(a[2] - b[2])>>

\* C36: for n >= 3 vertices smoothClosedPath emits exactly n cubic segments;
\* segment i (i = 0..n-1) ends at vertex (i+1) mod n, its first control point
\* is v[i] + 0.35 * (v[i+1] - v[i-1]) and its second is
\* v[i+1] - 0.35 * (v[i+2] - v[i]), indices mod n; for n < 3 it emits a
\* straight segment to each later point and closes the path.
PathSegments ==
    io.op = "path" =>
        LET n == Len(io.points)
            segs == SubSeq(io.result, 2, Len(io.result) - 1)
        IN  /\ io.result # << >>
            /\ io.result[Len(io.result)] = ClosePath
            /\ n >= 3 =>
                  /\ Len(io.result) = n + 2
                  /\ \A i \in 0..(n - 1) :
                        LET t == Tensioned(Vertex(i + 1), Vertex(i - 1))
                            u == Tensioned(Vertex(i + 2), Vertex(i))
                        IN  /\ segs[i + 1].op = "C"
                            /\ segs[i + 1].to = Vertex(i + 1)
                            /\ segs[i + 1].c1 = <<Vertex(i)[1] + t[1], Vertex(i)[2] + t[2]>>
                            /\ segs[i + 1].c2 = <<Vertex(i + 1)[1] - u[1],
                                                  Vertex(i + 1)[2] - u[2]>>
            /\ (n >= 1 /\ n < 3) =>
                  /\ Len(io.result) = n + 1
                  /\ io.result[1] = MoveTo(io.points[1])
                  /\ \A k \in 2..n : io.result[k] = LineTo(io.points[k])
            /\ n = 0 => io.result = <<ClosePath>>

\* The path through five vertices has been produced: five curves, and the
\* vertex after a segment's end is not the one before its start.
FiveVertexPath ==
    /\ io.op = "path"
    /\ Len(io.points) = 5
    /\ Len(io.result) = 7
    /\ io.result[2].op = "C"
    /\ Vertex(2) # Vertex(-1)
    /\ io.result[6].to = io.points[1]


(***************************************************************************)
(* Invariants of Edge-Editing, under Spec                                  *)
(***************************************************************************)

\* C37: whenever editingEdgesHotspotId is set it is the id of a hotspot of
\* the active profile that has a vertex list, edit mode is on and the undo
\* stack is not empty.
EditingIsSound ==
    EdgeEditing =>
        /\ HasHotspot(St, activeProfileId, editingEdgesHotspotId)
        /\ HotspotOf(St, activeProfileId, editingEdgesHotspotId).hasPoints
        /\ isEditMode
        /\ undoStack # << >>

\* "Edit Edges" was chosen on a hotspot of the old rectangle format: it is in
\* Edge-Editing without a vertex list and with an empty undo stack.
LegacyInEdgeEditing ==
    /\ ev = "editEdges"
    /\ isEditMode
    /\ editingEdgesHotspotId = LegacyHotspotId
    /\ HasHotspot(St, activeProfileId, editingEdgesHotspotId)
    /\ ~HotspotOf(St, activeProfileId, editingEdgesHotspotId).hasPoints
    /\ undoStack = << >>


\* Every hotspot of the store st has a name.
AllLabelled(store) ==
    \A i \in 1..Len(store.profiles) : \A k \in 1..Len(store.profiles[i].hotspots) :
        store.profiles[i].hotspots[k].name # << >>

\* C38: while no hotspot is in Edge-Editing and no naming modal is open,
\* every hotspot has a non-empty name, in memory and in the saved store.
UnnamedOnlyWhilePending ==
    (~EdgeEditing /\ modals = << >>) => AllLabelled(St) /\ AllLabelled(saved)

\* A second shape was drawn while the first was still unnamed, and was
\* confirmed and named: the editor is idle and the first has no name.
UnnamedLeftBehind ==
    /\ ev = "modalSave"
    /\ ~EdgeEditing /\ modals = << >>
    /\ isEditMode
    /\ Len(Hotspots) = 2
    /\ Hotspots[1].name = << >>
    /\ Hotspots[1].hasPoints
    /\ Hotspots[2].name # << >>
    /\ saved = StoreOf(St)


(***************************************************************************)
(* Several shapes drawn, dragged and undone in one run                     *)
(***************************************************************************)

NextCount ==
    \/ ToggleEditModeAct
    \/ ToolClickAct
    \/ IdDrawDownAct
    \/ IdDrawUpAct
    \/ KeyUndoAct
    \/ HandleDownAct
    \/ HandleMoveAct
    \/ HandleUpAct
    \/ ShapeDownAct
    \/ ShapeMoveAct
    \/ ShapeUpAct

SpecCount == Init /\ [][NextCount]_vars

\* The number of seed points onDrawUp builds for a tool: src/main.ts 434-461.
SeedLength(shapeType) ==
    IF shapeType = "rect" THEN 4
    ELSE IF shapeType = "ellipse" THEN 8
    ELSE 3

\* The hotspot h was drawn with a tool.
Drawn(h) == h.hasPoints /\ h.shapeType \in ShapeTools

\* Every drawn hotspot of the store has the vertex count of its seed.
SeedLengthsKept(store) ==
    \A i \in 1..Len(store.profiles) : \A k \in 1..Len(store.profiles[i].hotspots) :
        LET h == store.profiles[i].hotspots[k]
        IN  Drawn(h) => Len(h.points) = SeedLength(h.shapeType)

\* C39: a drawn hotspot keeps the vertex count of its seed (4 for a
\* rectangle, 8 for an ellipse, 3 for a triangle), in memory and in the saved
\* store, and while it is in Edge-Editing every snapshot on the undo stack
\* has that length.
VertexCountFixed ==
    /\ SeedLengthsKept(St)
    /\ SeedLengthsKept(saved)
    /\ (EdgeEditing /\ HasHotspot(St, activeProfileId, editingEdgesHotspotId)
          /\ Drawn(HotspotOf(St, activeProfileId, editingEdgesHotspotId)))
       => \A i \in 1..Len(undoStack) :
              Len(undoStack[i]) =
                  SeedLength(HotspotOf(St, activeProfileId, editingEdgesHotspotId).shapeType)

\* Two shapes got the same id; a vertex of the first was pressed and the
\* step undone: a drawn hotspot no longer has the vertex count of its seed.
SeedCountLost ==
    /\ ev = "undo"
    /\ \E k \in 1..Len(Hotspots) :
          /\ Drawn(Hotspots[k])
          /\ Len(Hotspots[k].points) # SeedLength(Hotspots[k].shapeType)


\* A Confirm or Cancel button on screen, or an Escape key press, whose
\* handler leaves Edge-Editing (src/main.ts 692-714, 506-517).
LeavingInputAvailable ==
    \/ \E hid \in DomIds :
          /\ DomHas(St, hid, "edge")
          /\ \/ ConfirmClick(St, hid).editingEdgesHotspotId = NoId
             \/ CancelClick(St, hid).editingEdgesHotspotId = NoId
    \/ /\ keyHandlers # << >>
       /\ KeyDown(St, "Escape").editingEdgesHotspotId = NoId

\* C40: in every state with editingEdgesHotspotId set, a Confirm, Cancel or
\* Escape input is available whose handling sets it to null, whether the
\* hotspot has a vertex list or is a legacy rectangle.
EdgeEditingCanBeLeft == EdgeEditing => LeavingInputAvailable

\* Escape was pressed with a legacy rectangle in Edge-Editing: the hotspot
\* is still in Edge-Editing and no shape on screen has Confirm or Cancel.
EscapeLeftLegacyEditing ==
    /\ ev = "escape"
    /\ editingEdgesHotspotId = LegacyHotspotId
    /\ HasHotspot(St, activeProfileId, LegacyHotspotId)
    /\ ~HotspotOf(St, activeProfileId, LegacyHotspotId).hasPoints
    /\ \A hid \in DomIds : ~DomHas(St, hid, "edge")
    /\ keyHandlers # << >>

====
